---- MODULE Spec2Model ----
(***************************************************************************)
(* Episode acquisition pipeline of animepahe-dl: the CLI job scheduler     *)
(* (cli/commands.py main), the episode orchestrator                        *)
(* (download_single_episode), the segment pipeline and muxer driver        *)
(* (api/downloader.py Downloader) and the shutdown flag                    *)
(* (core/signal_handler.py).                                               *)
(***************************************************************************)
EXTENDS Integers, Sequences, FiniteSets, TLC

\* ---------------------------------------------------------------- bounds
\* Largest batch (len(all_download_tasks)).
NJobs == 2
\* Largest number of segment lines over the playlists of one batch.
MaxSegs == 2
\* args.threads of the modelled runs (max_workers of the segment pool).
num_threads == 2

\* ------------------------------------------------------ program constants
\* args.concurrent_downloads, default value.
concurrent_downloads == 2
\* AES block size: ciphertext is padded to a multiple of it.
AES_BLOCK == 16
\* Width of the IV produced by int.to_bytes(16, byteorder="big").
IV_LEN == 16

\* ------------------------------------------------------------ input sets
\* Workspace directories <root>/<sanitized show>/<episode number>.
Paths == 1..NJobs
\* Segment URLs: directory part and last path component.
Url(d, n) == [dir |-> d, name |-> n]
SegmentUrls == {Url(1, "a.ts"), Url(1, "b.ts")}
Names == {u.name : u \in SegmentUrls}
\* Length in bytes of the ciphertext the site serves at a segment URL: one
\* body that needs zero-padding and one that is block-aligned.
CipherLen(u) == IF u.name = "a.ts" THEN 5 ELSE 32

\* ------------------------------------------------------- pure functions
\* os.path.basename(urlparse(url).path)
Basename(u) == u.name

\* int.to_bytes(len, byteorder="big") for a value that fits.
RECURSIVE to_bytes(_, _)
to_bytes(n, len) ==
    IF len = 0 THEN <<>>
    ELSE Append(to_bytes(n \div 256, len - 1), n % 256)

\* while len(encrypted_data) % 16 != 0: encrypted_data += b"\0"
RECURSIVE PaddedLen(_)
PaddedLen(n) == IF n % AES_BLOCK # 0 THEN PaddedLen(n + 1) ELSE n

\* list.index(x): position of the first occurrence, 0-based.
RECURSIVE IndexFrom(_, _, _)
IndexFrom(s, x, i) ==
    IF s[i] = x THEN i - 1 ELSE IndexFrom(s, x, i + 1)

Range(s) == {s[i] : i \in DOMAIN s}

\* Number of segment lines the tasks 1..n have to process.
RECURSIVE SumLens(_, _, _)
SumLens(pl, pa, n) ==
    IF n = 0 THEN 0
    ELSE Len(pl[pa[n]].segments) + SumLens(pl, pa, n - 1)

\* ------------------------------------------------------------------ state
VARIABLES
    njobs,            \* len(all_download_tasks)
    path,             \* task -> workspace/output path it resolves to
    playlist,         \* per path: the media playlist the site serves
    disk,             \* per path: workspace directory, its files, output MP4
    is_shutting_down, \* SignalHandler.is_shutting_down
    executor_shutdown,\* the job executor's _shutdown flag
    mainpc,           \* position of the main thread in main()
    nextTask,         \* index of the next task of the submit loop
    jpc,              \* per task: position of its orchestrator
    jres,             \* per task: how its orchestrator ended
    reported,         \* per task: what the result loop of main logged
    failed_downloads, \* main's failed_downloads list
    futs,             \* per task: the segment futures of its pipeline
    collected,        \* per task: futures already seen by the result loop
    failed_segments,  \* per task: the pipeline's failed_segments list
    dlres,            \* per task: return value of download_from_playlist_cli
    key,              \* per task: outcome of the GET of the key URI
    netCalls,         \* per task: number of HTTP requests issued
    req,              \* one call of AnimePaheAPI._request
    parser,           \* one call of Downloader.get_playlist_details
    resolver,         \* one call of AnimePaheAPI.get_stream_url
    sanitizer,        \* one call of sanitize_filename
    naming,           \* the paths given to two tasks of one batch
    selection,        \* one call of parse_episode_selection
    client,           \* one AnimePaheAPI object and the requests it has open
    anime,            \* one Anime object
    config            \* the config file and one load_config / save_config

vars == <<njobs, path, playlist, disk, is_shutting_down, executor_shutdown,
          mainpc, nextTask, jpc, jres, reported, failed_downloads, futs,
          collected, failed_segments, dlres, key, netCalls,
          req, parser, resolver, sanitizer, naming, selection, client,
          anime, config>>

schedVars == <<is_shutting_down, executor_shutdown, mainpc, nextTask,
               reported, failed_downloads>>
configVars == <<njobs, path, playlist>>
\* The calls that are followed on their own.
unitVars == <<req, parser, resolver, sanitizer, naming, selection, client,
              anime, config>>
\* Everything of a batch except the shutdown flag.
batchVars == <<njobs, path, playlist, disk, executor_shutdown, mainpc, nextTask,
               jpc, jres, reported, failed_downloads, futs, collected,
               failed_segments, dlres, key, netCalls>>

\* -------------------------------------------------------------- disk model
EmptyWorkspace ==
    [dir |-> FALSE, playlist |-> FALSE, filelist |-> FALSE, output |-> FALSE,
     manifest |-> <<>>, muxin |-> <<>>,
     seg |-> [n \in Names |-> [exists |-> FALSE, size |-> 0, clen |-> 0,
                              iv |-> <<>>, url |-> Url(0, "")]]]

\* The served playlists: well-formed ones, one without any segment line and
\* one without a key URI.  #EXT-X-MEDIA-SEQUENCE is 255 in the well-formed
\* ones: adding an index of 1 carries into the next byte of the IV.
Playlists ==
    {[key_url |-> TRUE, segments |-> s, media_sequence |-> m] :
        s \in UNION {[1..n -> SegmentUrls] : n \in 1..MaxSegs},
        m \in {255}}
    \cup
    {[key_url |-> TRUE, segments |-> <<>>, media_sequence |-> 0],
     [key_url |-> FALSE, segments |-> <<Url(1, "a.ts")>>, media_sequence |-> 0]}

Terminal == {"returned", "raised"}

\* No call of _request, of get_playlist_details or of get_stream_url is
\* being followed.
NoCall == [pc |-> "idle"]
NoHelperCalls ==
    /\ sanitizer = NoCall
    /\ naming = NoCall
    /\ selection = NoCall
    /\ client = NoCall
    /\ anime = NoCall
    /\ config = NoCall

\* --------------------------------------------------------------- initial
\* A batch of 1..NJobs tasks.  Two tasks may resolve to the same paths (the
\* same episode queued twice, or titles that sanitize to the same name).
\* Tasks with the same paths are served the same playlist.  No workspace and
\* no output exists yet: main() queues only episodes whose output file it
\* did not find.
Batch ==
    /\ njobs \in 1..NJobs
    /\ path \in [1..njobs -> Paths]
    /\ \A j \in 1..njobs : path[j] <= j /\ (j > 1 => path[j] >= path[j - 1])
    /\ playlist \in [Paths -> Playlists]
    /\ \A p \in Paths :
          p \notin {path[j] : j \in 1..njobs} =>
              playlist[p] = [key_url |-> TRUE, segments |-> <<>>,
                             media_sequence |-> 0]
    /\ SumLens(playlist, path, njobs) <= MaxSegs
    /\ disk = [p \in Paths |-> EmptyWorkspace]
    /\ is_shutting_down = FALSE
    /\ executor_shutdown = FALSE
    /\ nextTask = 1
    /\ jpc = [j \in 1..njobs |-> "new"]
    /\ jres = [j \in 1..njobs |-> "none"]
    /\ reported = [j \in 1..njobs |-> "none"]
    /\ failed_downloads = <<>>
    /\ futs = [j \in 1..njobs |-> <<>>]
    /\ collected = [j \in 1..njobs |-> {}]
    /\ failed_segments = [j \in 1..njobs |-> <<>>]
    /\ dlres = [j \in 1..njobs |-> "none"]
    /\ key = [j \in 1..njobs |-> "none"]
    /\ netCalls = [j \in 1..njobs |-> 0]
    /\ req = NoCall
    /\ parser = NoCall
    /\ resolver = NoCall
    /\ NoHelperCalls

\* main() of the CLI is about to submit the tasks to its pool.
Init == Batch /\ mainpc = "submit"

\* The GUI's DownloadWorker.run is about to iterate over its episodes.
InitGui == Batch /\ mainpc = "gui"

\* ------------------------------------------------- playlist and pipeline
\* What the GET of the key URI gives: no response, or a body of 16 or of
\* 15 bytes, which is used as the key without a look at its length.
KeyResponses == {"failed", "k16", "k15"}
KeyLen(k) == CASE k = "k16" -> 16 [] k = "k15" -> 15 [] OTHER -> 0

\* AES.new(key, AES.MODE_CBC, iv) takes keys of 16, 24 or 32 bytes and
\* raises ValueError for any other length.
AESAccepts(k) == KeyLen(k) \in {16, 24, 32}

\* Downloader.get_playlist_details: None (here ok = FALSE) when the file is
\* missing or has no key URI or no segment line.
ParseFailed == [ok |-> FALSE]
get_playlist_details(p) ==
    IF ~disk[p].playlist THEN ParseFailed
    ELSE IF ~playlist[p].key_url \/ playlist[p].segments = <<>> THEN ParseFailed
    ELSE [ok |-> TRUE,
          key_url |-> playlist[p].key_url,
          segments |-> playlist[p].segments,
          media_sequence |-> playlist[p].media_sequence]

\* A path check that never finds the segment file.
SegmentExistsNever(ws, seg_url) == FALSE

\* os.path.exists(os.path.join(episode_dir, basename(urlparse(s).path)))
SegmentExists(ws, seg_url) == ws.seg[Basename(seg_url)].exists

\* The comprehension of download_from_playlist_cli: the segments whose file
\* does not exist in the episode directory, in playlist order.
RECURSIVE segments_to_download(_, _)
segments_to_download(segments, ws) ==
    IF segments = <<>> THEN <<>>
    ELSE IF ~SegmentExists(ws, Head(segments))
         THEN <<Head(segments)>> \o segments_to_download(Tail(segments), ws)
         ELSE segments_to_download(Tail(segments), ws)

\* The 0-based positions, in the full segment list, of the entries that
\* segments_to_download keeps (same order, same length).
RECURSIVE PendingPositions(_, _, _)
PendingPositions(segments, ws, i) ==
    IF i > Len(segments) THEN <<>>
    ELSE IF ~SegmentExists(ws, segments[i])
         THEN <<i - 1>> \o PendingPositions(segments, ws, i + 1)
         ELSE PendingPositions(segments, ws, i + 1)

\* original_index = segments.index(seg_url)
original_index(segments, seg_url) == IndexFrom(segments, seg_url, 1)

\* The future submitted for one pending segment; pos is the position of
\* that entry in the full segment list, and
\* iv = (media_sequence + original_index).to_bytes(16, byteorder="big").
NewFuture(details, seg_url, pos) ==
    [url |-> seg_url,
     name |-> Basename(seg_url),
     index |-> original_index(details.segments, seg_url),
     iv |-> to_bytes(details.media_sequence
                         + original_index(details.segments, seg_url), IV_LEN),
     pos |-> pos,
     st |-> "queued", len |-> 0, res |-> 0, got |-> FALSE]

\* A submission loop that stops after the first pending segment.
SubmitFirstOnly(details, pending, positions) ==
    [k \in 1..1 |-> NewFuture(details, pending[k], positions[k])]

\* executor.submit(self.download_segment, ...) for every pending segment.
SubmitAll(details, pending, positions) ==
    [k \in 1..Len(pending) |-> NewFuture(details, pending[k], positions[k])]

\* A pool that takes no account of its busy threads.
RunningNone(j) == {}
Running(j) == {k \in DOMAIN futs[j] : futs[j][k].st \in {"fetching", "opened"}}
\* shutdown(wait=True) of the segment pool: every submitted future has run.
AllDone(j) == \A k \in DOMAIN futs[j] : futs[j][k].st = "done"

\* with tqdm(total=len(segments_to_download), ...) as pbar: the bar's total
\* is the number of futures, one per pending segment, and it starts at 0.
pbar_total(j) == Len(futs[j])

\* pbar.update(1) once for every future the result loop has booked.
pbar_n(j) == Cardinality(collected[j])

\* if failed_segments: return False ... return True
PipelineResult(failed) == IF failed # <<>> THEN "false" ELSE "true"

\* download_from_playlist_cli up to the end of the submit loop: parse the
\* playlist, GET the key, partition, submit one future per pending segment.
DownloadFromPlaylist(j) ==
    /\ jpc[j] = "pipeline"
    /\ LET p == path[j]
           details == get_playlist_details(p)
       IN IF ~details.ok
          THEN /\ dlres' = [dlres EXCEPT ![j] = "false"]
               /\ jpc' = [jpc EXCEPT ![j] = "afterdl"]
               /\ UNCHANGED <<futs, key, netCalls>>
          ELSE \E kr \in KeyResponses :
               LET keyOk == kr # "failed" IN
               /\ netCalls' = [netCalls EXCEPT ![j] = @ + 1]
               /\ key' = [key EXCEPT ![j] = kr]
               /\ IF ~keyOk
                  THEN /\ dlres' = [dlres EXCEPT ![j] = "false"]
                       /\ jpc' = [jpc EXCEPT ![j] = "afterdl"]
                       /\ UNCHANGED futs
                  ELSE LET pending == segments_to_download(details.segments, disk[p])
                           positions == PendingPositions(details.segments, disk[p], 1)
                       IN IF pending = <<>>
                          THEN /\ dlres' = [dlres EXCEPT ![j] = "true"]
                               /\ jpc' = [jpc EXCEPT ![j] = "afterdl"]
                               /\ UNCHANGED futs
                          ELSE /\ futs' = [futs EXCEPT ![j] =
                                              SubmitAll(details, pending, positions)]
                               /\ jpc' = [jpc EXCEPT ![j] = "collecting"]
                               /\ UNCHANGED dlres
    /\ collected' = [collected EXCEPT ![j] = {}]
    /\ failed_segments' = [failed_segments EXCEPT ![j] = <<>>]
    /\ UNCHANGED <<unitVars, configVars, schedVars, disk, jres>>

\* A pool thread takes the next work item (FIFO, at most num_threads at a
\* time) and enters download_segment: an existing file is returned as is,
\* otherwise the GET is issued.
StartSegment(j, k) ==
    /\ k \in DOMAIN futs[j]
    /\ futs[j][k].st = "queued"
    /\ \A i \in 1..(k - 1) : futs[j][i].st # "queued"
    /\ Cardinality(Running(j)) < num_threads
    /\ LET f == futs[j][k]
           file == disk[path[j]].seg[f.name]
       IN IF file.exists
          THEN /\ futs' = [futs EXCEPT ![j][k].st = "done", ![j][k].res = file.size]
               /\ UNCHANGED netCalls
          ELSE /\ futs' = [futs EXCEPT ![j][k].st = "fetching", ![j][k].got = TRUE]
               /\ netCalls' = [netCalls EXCEPT ![j] = @ + 1]
    /\ UNCHANGED <<unitVars, configVars, schedVars, disk, jpc, jres, collected,
                   failed_segments, dlres, key>>

\* download_segment from the response to open(output_path, "wb"): no
\* response returns 0; a body that cannot be read raises (res = -1); else
\* the data is padded and decrypted and the output file is created empty.
\* AES.new with a key of a length it does not accept raises and returns 0,
\* and so does open() in a directory that no longer exists.
FetchSegment(j, k) ==
    /\ k \in DOMAIN futs[j]
    /\ futs[j][k].st = "fetching"
    /\ LET f == futs[j][k]
           p == path[j]
       IN \/ /\ futs' = [futs EXCEPT ![j][k].st = "done", ![j][k].res = 0]
             /\ UNCHANGED disk
          \/ /\ futs' = [futs EXCEPT ![j][k].st = "done", ![j][k].res = -1]
             /\ UNCHANGED disk
          \/ LET n == CipherLen(f.url)
             IN IF ~AESAccepts(key[j]) \/ ~disk[p].dir
                THEN /\ futs' = [futs EXCEPT ![j][k].st = "done", ![j][k].res = 0]
                     /\ UNCHANGED disk
                ELSE /\ futs' = [futs EXCEPT ![j][k].st = "opened", ![j][k].len = n]
                     /\ disk' = [disk EXCEPT ![p].seg[f.name] =
                                    [exists |-> TRUE, size |-> 0, clen |-> n,
                                     iv |-> f.iv, url |-> f.url]]
    /\ UNCHANGED <<unitVars, configVars, schedVars, jpc, jres, collected,
                   failed_segments, dlres, key, netCalls>>

\* f.write(decrypted_data) and close: the file holds the whole plaintext of
\* this worker; returns the number of bytes fetched.
WriteSegment(j, k) ==
    /\ k \in DOMAIN futs[j]
    /\ futs[j][k].st = "opened"
    /\ LET f == futs[j][k]
           p == path[j]
       IN /\ futs' = [futs EXCEPT ![j][k].st = "done", ![j][k].res = f.len]
          /\ disk' = IF disk[p].seg[f.name].exists
                     THEN [disk EXCEPT ![p].seg[f.name] =
                              [exists |-> TRUE, size |-> PaddedLen(f.len),
                               clen |-> f.len, iv |-> f.iv, url |-> f.url]]
                     ELSE disk
    /\ UNCHANGED <<unitVars, configVars, schedVars, jpc, jres, collected,
                   failed_segments, dlres, key, netCalls>>

\* One iteration of "for future in as_completed(...)": break when shutdown
\* was requested, else book the result; after the last future the failure
\* list decides the return value.
CollectSegment(j, k) ==
    /\ jpc[j] = "collecting"
    /\ k \in DOMAIN futs[j]
    /\ futs[j][k].st = "done"
    /\ k \notin collected[j]
    /\ IF is_shutting_down
       THEN /\ dlres' = [dlres EXCEPT ![j] = PipelineResult(failed_segments[j])]
            /\ jpc' = [jpc EXCEPT ![j] = "joining"]
            /\ UNCHANGED <<collected, failed_segments>>
       ELSE LET failed == IF futs[j][k].res > 0 THEN failed_segments[j]
                          ELSE Append(failed_segments[j], futs[j][k].name)
                seen == collected[j] \cup {k}
            IN /\ failed_segments' = [failed_segments EXCEPT ![j] = failed]
               /\ collected' = [collected EXCEPT ![j] = seen]
               /\ IF seen = DOMAIN futs[j]
                  THEN /\ dlres' = [dlres EXCEPT ![j] = PipelineResult(failed)]
                       /\ jpc' = [jpc EXCEPT ![j] = "joining"]
                  ELSE UNCHANGED <<dlres, key, jpc>>
    /\ UNCHANGED <<unitVars, configVars, schedVars, disk, jres, futs, key, netCalls>>

\* Leaving "with ThreadPoolExecutor(...)": shutdown(wait=True) returns once
\* every submitted future has run; then download_from_playlist_cli returns.
ExitSegmentPool(j) ==
    /\ jpc[j] = "joining"
    /\ AllDone(j)
    /\ jpc' = [jpc EXCEPT ![j] = "afterdl"]
    /\ UNCHANGED <<unitVars, configVars, schedVars, disk, jres, futs, collected,
                   failed_segments, dlres, key, netCalls>>

\* ---------------------------------------------------------------- muxer
\* compile_video's test of the muxer's outcome: "if process.returncode == 0".
MuxSucceeded(returncode, outputMade) == returncode = 0

\* shutil.rmtree(segment_dir): the workspace and every file in it are gone;
\* the output MP4 lives in the show directory and stays, and so does the
\* record of what the muxer was given.
rmtree(ws) == [EmptyWorkspace EXCEPT !.output = ws.output, !.muxin = ws.muxin]

\* Outcomes of the external muxer: its exit status and whether it left a
\* file at output_path.

\* ---------------------------------------------------------- orchestrator
\* A pool that does not count the thread working on the first task.
RunningJobsAfterFirst ==
    {j \in 2..njobs : jpc[j] \notin ({"new", "queued"} \cup Terminal)}
RunningJobs == {j \in 1..njobs : jpc[j] \notin ({"new", "queued"} \cup Terminal)}

\* A check that never finds the final video.
OutputExistsNever(j) == FALSE

\* os.path.exists(final_video_path) at the top of download_single_episode.
OutputExists(j) == disk[path[j]].output

\* A thread of the job pool takes the next queued task (FIFO, at most
\* concurrent_downloads at a time) and enters download_single_episode, which
\* returns at once when the final video exists.
StartJob(j) ==
    /\ j \in 1..njobs
    /\ jpc[j] = "queued"
    /\ \A i \in 1..(j - 1) : jpc[i] # "queued"
    /\ Cardinality(RunningJobs) < concurrent_downloads
    /\ IF OutputExists(j)
       THEN /\ jpc' = [jpc EXCEPT ![j] = "returned"]
            /\ jres' = [jres EXCEPT ![j] = "skipped"]
       ELSE /\ jpc' = [jpc EXCEPT ![j] = "stream"]
            /\ UNCHANGED jres
    /\ UNCHANGED <<unitVars, configVars, schedVars, disk, futs, collected,
                   failed_segments, dlres, key, netCalls>>

\* 1. api.get_stream_url: one GET of the play page; no stream: log, return.
GetStreamUrl(j) ==
    /\ j \in 1..njobs
    /\ jpc[j] = "stream"
    /\ netCalls' = [netCalls EXCEPT ![j] = @ + 1]
    /\ \/ /\ jpc' = [jpc EXCEPT ![j] = "playlisturl"]
          /\ UNCHANGED jres
       \/ /\ jpc' = [jpc EXCEPT ![j] = "returned"]
          /\ jres' = [jres EXCEPT ![j] = "nostream"]
    /\ UNCHANGED <<unitVars, configVars, schedVars, disk, futs, collected,
                   failed_segments, dlres, key>>

\* 2. api.get_playlist_url: one GET and the script evaluation; failure: log,
\* return.
GetPlaylistUrl(j) ==
    /\ j \in 1..njobs
    /\ jpc[j] = "playlisturl"
    /\ netCalls' = [netCalls EXCEPT ![j] = @ + 1]
    /\ \/ /\ jpc' = [jpc EXCEPT ![j] = "fetchplaylist"]
          /\ UNCHANGED jres
       \/ /\ jpc' = [jpc EXCEPT ![j] = "returned"]
          /\ jres' = [jres EXCEPT ![j] = "noplaylisturl"]
    /\ UNCHANGED <<unitVars, configVars, schedVars, disk, futs, collected,
                   failed_segments, dlres, key>>

\* 3. downloader.fetch_playlist: make the episode directory; an existing
\* playlist.m3u8 is reused, else it is fetched and written; failure: return.
FetchPlaylist(j) ==
    /\ j \in 1..njobs
    /\ jpc[j] = "fetchplaylist"
    /\ LET p == path[j]
       IN IF disk[p].dir /\ disk[p].playlist
          THEN /\ jpc' = [jpc EXCEPT ![j] = "pipeline"]
               /\ UNCHANGED <<disk, jres, netCalls>>
          ELSE /\ netCalls' = [netCalls EXCEPT ![j] = @ + 1]
               /\ \/ /\ disk' = [disk EXCEPT ![p].dir = TRUE, ![p].playlist = TRUE]
                     /\ jpc' = [jpc EXCEPT ![j] = "pipeline"]
                     /\ UNCHANGED jres
                  \/ /\ disk' = [disk EXCEPT ![p].dir = TRUE]
                     /\ jpc' = [jpc EXCEPT ![j] = "returned"]
                     /\ jres' = [jres EXCEPT ![j] = "noplaylist"]
    /\ UNCHANGED <<unitVars, configVars, schedVars, futs, collected,
                   failed_segments, dlres, key>>

\* "if download_success:" of download_single_episode: go on to compile, or
\* raise "Segment download failed".
HandleDownloadResult(j) ==
    /\ j \in 1..njobs
    /\ jpc[j] = "afterdl"
    /\ IF dlres[j] = "true"
       THEN /\ jpc' = [jpc EXCEPT ![j] = "compile"]
            /\ UNCHANGED jres
       ELSE /\ jpc' = [jpc EXCEPT ![j] = "raised"]
            /\ jres' = [jres EXCEPT ![j] = "segfail"]
    /\ UNCHANGED <<unitVars, configVars, schedVars, disk, futs, collected,
                   failed_segments, dlres, key, netCalls>>

\* A file list written last segment first.
file_list_reversed(details) ==
    IF ~details.ok THEN <<>>
    ELSE [i \in 1..Len(details.segments) |->
             Basename(details.segments[Len(details.segments) + 1 - i])]

\* The names compile_video writes to file.list, one "file '<name>'" line
\* per segment of the parsed playlist in its order; nothing when the
\* playlist cannot be parsed.
file_list(details) ==
    IF ~details.ok THEN <<>>
    ELSE [i \in 1..Len(details.segments) |-> Basename(details.segments[i])]

\* Downloader.compile_video on workspace p with result res.  It writes
\* file.list (open() raises when the directory is gone), looks the muxer up
\* (not found: False), runs it, and on success removes the workspace.
compile_video(p, res) ==
    IF ~disk[p].dir
    THEN /\ res = "raise"
         /\ UNCHANGED disk
    ELSE LET lines == file_list(get_playlist_details(p))
         IN
         \/ /\ res = "false"
            /\ disk' = [disk EXCEPT ![p].filelist = TRUE, ![p].manifest = lines]
         \/ \E rc \in {0, 1}, made \in BOOLEAN :
               LET out == disk[p].output \/ made
                   ws == [disk[p] EXCEPT !.filelist = TRUE, !.manifest = lines,
                                         !.muxin = lines, !.output = out]
               IN IF MuxSucceeded(rc, out)
                  THEN /\ res = "true"
                       /\ disk' = [disk EXCEPT ![p] = rmtree(ws)]
                  ELSE /\ res = "false"
                       /\ disk' = [disk EXCEPT ![p] = ws]

\* 5. of download_single_episode: compile_video; False makes the
\* orchestrator raise "Video compilation failed".
CompileVideo(j) ==
    /\ j \in 1..njobs
    /\ jpc[j] = "compile"
    /\ \E res \in {"true", "false", "raise"} :
          /\ compile_video(path[j], res)
          /\ jpc' = [jpc EXCEPT ![j] = IF res = "true" THEN "returned" ELSE "raised"]
          /\ jres' = [jres EXCEPT ![j] =
                         CASE res = "true" -> "ok"
                           [] res = "false" -> "muxfail"
                           [] OTHER -> "error"]
    /\ UNCHANGED <<unitVars, configVars, schedVars, futs, collected,
                   failed_segments, dlres, key, netCalls>>

\* ------------------------------------------------------------- scheduler
Submitted == 1..(nextTask - 1)
PoolDrained == \A j \in Submitted : jpc[j] \in Terminal

\* One iteration of the submit loop of main().
SubmitTask ==
    /\ mainpc = "submit"
    /\ IF is_shutting_down
       THEN /\ mainpc' = "collect"
            /\ UNCHANGED <<nextTask, jpc>>
       ELSE /\ jpc' = [jpc EXCEPT ![nextTask] = "queued"]
            /\ nextTask' = nextTask + 1
            /\ mainpc' = IF nextTask = njobs THEN "collect" ELSE "submit"
    /\ UNCHANGED <<unitVars, configVars, disk, is_shutting_down, executor_shutdown,
                   jres, reported, failed_downloads, futs, collected,
                   failed_segments, dlres, key, netCalls>>

\* A result loop that stops at the first future that raised.
CollectJobFailFast(j) ==
    /\ mainpc = "collect"
    /\ j \in Submitted
    /\ jpc[j] \in Terminal
    /\ reported[j] = "none"
    /\ IF is_shutting_down
       THEN /\ mainpc' = "leaving"
            /\ UNCHANGED <<reported, failed_downloads>>
       ELSE /\ reported' = [reported EXCEPT ![j] =
                               IF jpc[j] = "raised" THEN "failed" ELSE "completed"]
            /\ failed_downloads' = IF jpc[j] = "raised"
                                   THEN Append(failed_downloads, j)
                                   ELSE failed_downloads
            /\ mainpc' = IF \/ jpc[j] = "raised"
                            \/ \A i \in Submitted \ {j} : reported[i] # "none"
                         THEN "leaving" ELSE "collect"
    /\ UNCHANGED <<unitVars, configVars, disk, is_shutting_down, executor_shutdown,
                   nextTask, jpc, jres, futs, collected, failed_segments,
                   dlres, key, netCalls>>

\* One iteration of "for future in as_completed(futures)" of main(): break
\* on shutdown, else log "Completed" or, when result() raises, log the
\* failure and append to failed_downloads.
CollectJob(j) ==
    /\ mainpc = "collect"
    /\ j \in Submitted
    /\ jpc[j] \in Terminal
    /\ reported[j] = "none"
    /\ IF is_shutting_down
       THEN /\ mainpc' = "leaving"
            /\ UNCHANGED <<reported, failed_downloads>>
       ELSE /\ reported' = [reported EXCEPT ![j] =
                               IF jpc[j] = "raised" THEN "failed" ELSE "completed"]
            /\ failed_downloads' = IF jpc[j] = "raised"
                                   THEN Append(failed_downloads, j)
                                   ELSE failed_downloads
            /\ mainpc' = IF \A i \in Submitted \ {j} : reported[i] # "none"
                         THEN "leaving" ELSE "collect"
    /\ UNCHANGED <<unitVars, configVars, disk, is_shutting_down, executor_shutdown,
                   nextTask, jpc, jres, futs, collected, failed_segments,
                   dlres, key, netCalls>>

\* End of the "with ThreadPoolExecutor" block of main(): wait for the pool,
\* then "All selected downloads are finished!".
LeavePool ==
    /\ mainpc = "leaving"
    /\ PoolDrained
    /\ mainpc' = "finished"
    /\ UNCHANGED <<unitVars, configVars, disk, is_shutting_down, executor_shutdown,
                   nextTask, jpc, jres, reported, failed_downloads, futs,
                   collected, failed_segments, dlres, key, netCalls>>

\* shutdown_callback: executor_ref.shutdown(wait=False).  Work items already
\* in the pool's queue stay there.
shutdown_callback == executor_shutdown' = TRUE

\* SignalHandler._signal_handler, first signal: set the flag, run the
\* callbacks, sys.exit(0).  The handler runs in the main thread, so
\* SystemExit unwinds main() out of its loops into the executor's __exit__.
SignalHandler ==
    /\ mainpc \in {"submit", "collect", "leaving"}
    /\ ~is_shutting_down
    /\ is_shutting_down' = TRUE
    /\ shutdown_callback
    /\ mainpc' = "unwinding"
    /\ UNCHANGED <<unitVars, configVars, disk, nextTask, jpc, jres, reported,
                   failed_downloads, futs, collected, failed_segments,
                   dlres, key, netCalls>>

\* The executor's __exit__ during the unwinding: shutdown(wait=True) joins
\* the pool threads, which first drain the queue; then the process exits.
MainExit ==
    /\ mainpc = "unwinding"
    /\ PoolDrained
    /\ mainpc' = "exited"
    /\ UNCHANGED <<unitVars, configVars, disk, is_shutting_down, executor_shutdown,
                   nextTask, jpc, jres, reported, failed_downloads, futs,
                   collected, failed_segments, dlres, key, netCalls>>

\* ------------------------------------------- GUI worker (workers.py)
\* "for i, episode in enumerate(self.episodes)": the worker thread takes the
\* next episode once the previous one is through.
GuiStartEpisode ==
    /\ mainpc = "gui"
    /\ nextTask <= njobs
    /\ \A i \in 1..(nextTask - 1) : jpc[i] \in Terminal
    /\ jpc' = [jpc EXCEPT ![nextTask] = "stream"]
    /\ nextTask' = nextTask + 1
    /\ UNCHANGED <<unitVars, configVars, disk, is_shutting_down, executor_shutdown,
                   mainpc, jres, reported, failed_downloads, futs, collected,
                   failed_segments, dlres, key, netCalls>>

\* DownloadWorker.run, lines 165-201: parse the playlist, GET the key,
\* partition; "continue" on a failure; with pending segments enter
\* _run_segment_downloads and submit them all, else go on to compile.
GuiPrepareSegments(j) ==
    /\ j \in 1..njobs
    /\ jpc[j] = "pipeline"
    /\ LET p == path[j]
           details == get_playlist_details(p)
       IN IF ~details.ok
          THEN /\ jpc' = [jpc EXCEPT ![j] = "returned"]
               /\ jres' = [jres EXCEPT ![j] = "noplan"]
               /\ UNCHANGED <<futs, key, netCalls>>
          ELSE \E kr \in KeyResponses :
               LET keyOk == kr # "failed" IN
               /\ netCalls' = [netCalls EXCEPT ![j] = @ + 1]
               /\ key' = [key EXCEPT ![j] = kr]
               /\ IF ~keyOk
                  THEN /\ jpc' = [jpc EXCEPT ![j] = "returned"]
                       /\ jres' = [jres EXCEPT ![j] = "nokey"]
                       /\ UNCHANGED futs
                  ELSE LET pending == segments_to_download(details.segments, disk[p])
                           positions == PendingPositions(details.segments, disk[p], 1)
                       IN /\ UNCHANGED jres
                          /\ IF pending = <<>>
                             THEN /\ jpc' = [jpc EXCEPT ![j] = "compile"]
                                  /\ UNCHANGED futs
                             ELSE /\ futs' = [futs EXCEPT ![j] =
                                                SubmitAll(details, pending, positions)]
                                  /\ jpc' = [jpc EXCEPT ![j] = "collecting"]
    /\ UNCHANGED <<unitVars, configVars, schedVars, disk, collected, failed_segments,
                   dlres>>

\* One iteration of "for future in as_completed(futures)" of
\* _run_segment_downloads: future.result() re-raises a worker's exception;
\* a result of 0 is only left out of the progress count.
GuiCollectSegment(j, k) ==
    /\ jpc[j] = "collecting"
    /\ k \in DOMAIN futs[j]
    /\ futs[j][k].st = "done"
    /\ k \notin collected[j]
    /\ IF futs[j][k].res < 0
       THEN /\ dlres' = [dlres EXCEPT ![j] = "raised"]
            /\ jpc' = [jpc EXCEPT ![j] = "joining"]
            /\ UNCHANGED collected
       ELSE LET seen == collected[j] \cup {k}
            IN /\ collected' = [collected EXCEPT ![j] = seen]
               /\ IF seen = DOMAIN futs[j]
                  THEN /\ dlres' = [dlres EXCEPT ![j] = "returned"]
                       /\ jpc' = [jpc EXCEPT ![j] = "joining"]
                  ELSE UNCHANGED <<dlres, jpc>>
    /\ UNCHANGED <<unitVars, configVars, schedVars, disk, jres, futs, failed_segments,
                   key, netCalls>>

\* Leaving the executor of _run_segment_downloads: every future has run.  A
\* pending exception reaches the "except Exception" of run ("continue");
\* otherwise run goes on to "Step 3: Compile Video".
GuiExitSegmentPool(j) ==
    /\ jpc[j] = "joining"
    /\ AllDone(j)
    /\ IF dlres[j] = "raised"
       THEN /\ jpc' = [jpc EXCEPT ![j] = "raised"]
            /\ jres' = [jres EXCEPT ![j] = "error"]
       ELSE /\ jpc' = [jpc EXCEPT ![j] = "compile"]
            /\ UNCHANGED jres
    /\ UNCHANGED <<unitVars, configVars, schedVars, disk, futs, collected,
                   failed_segments, dlres, key, netCalls>>

\* self.downloader.compile_video(...): the return value is not looked at;
\* an exception is caught by run.
GuiCompileVideo(j) ==
    /\ j \in 1..njobs
    /\ jpc[j] = "compile"
    /\ \E res \in {"true", "false", "raise"} :
          /\ compile_video(path[j], res)
          /\ jpc' = [jpc EXCEPT ![j] = IF res = "raise" THEN "raised" ELSE "returned"]
          /\ jres' = [jres EXCEPT ![j] =
                         CASE res = "true" -> "ok"
                           [] res = "false" -> "muxfail"
                           [] OTHER -> "error"]
    /\ UNCHANGED <<unitVars, configVars, schedVars, futs, collected,
                   failed_segments, dlres, key, netCalls>>

\* self.finished.emit() after the last episode.
GuiFinished ==
    /\ mainpc = "gui"
    /\ nextTask > njobs
    /\ \A j \in 1..njobs : jpc[j] \in Terminal
    /\ mainpc' = "finished"
    /\ UNCHANGED <<unitVars, configVars, disk, is_shutting_down, executor_shutdown,
                   nextTask, jpc, jres, reported, failed_downloads, futs,
                   collected, failed_segments, dlres, key, netCalls>>

\* ---------------------------------------------------------- specification
Next ==
    \/ SubmitTask
    \/ \E j \in 1..njobs : StartJob(j)
    \/ \E j \in 1..njobs : GetStreamUrl(j)
    \/ \E j \in 1..njobs : GetPlaylistUrl(j)
    \/ \E j \in 1..njobs : FetchPlaylist(j)
    \/ \E j \in 1..njobs : DownloadFromPlaylist(j)
    \/ \E j \in 1..njobs : \E k \in DOMAIN futs[j] : StartSegment(j, k)
    \/ \E j \in 1..njobs : \E k \in DOMAIN futs[j] : FetchSegment(j, k)
    \/ \E j \in 1..njobs : \E k \in DOMAIN futs[j] : WriteSegment(j, k)
    \/ \E j \in 1..njobs : \E k \in DOMAIN futs[j] : CollectSegment(j, k)
    \/ \E j \in 1..njobs : ExitSegmentPool(j)
    \/ \E j \in 1..njobs : HandleDownloadResult(j)
    \/ \E j \in 1..njobs : CompileVideo(j)
    \/ \E j \in 1..njobs : CollectJob(j)
    \/ LeavePool
    \/ SignalHandler
    \/ MainExit

Spec == Init /\ [][Next]_vars

NextGui ==
    \/ GuiStartEpisode
    \/ \E j \in 1..njobs : GetStreamUrl(j)
    \/ \E j \in 1..njobs : GetPlaylistUrl(j)
    \/ \E j \in 1..njobs : FetchPlaylist(j)
    \/ \E j \in 1..njobs : GuiPrepareSegments(j)
    \/ \E j \in 1..njobs : \E k \in DOMAIN futs[j] : StartSegment(j, k)
    \/ \E j \in 1..njobs : \E k \in DOMAIN futs[j] : FetchSegment(j, k)
    \/ \E j \in 1..njobs : \E k \in DOMAIN futs[j] : WriteSegment(j, k)
    \/ \E j \in 1..njobs : \E k \in DOMAIN futs[j] : GuiCollectSegment(j, k)
    \/ \E j \in 1..njobs : GuiExitSegmentPool(j)
    \/ \E j \in 1..njobs : GuiCompileVideo(j)
    \/ GuiFinished

SpecGui == InitGui /\ [][NextGui]_vars

\* ------------------------------------------------- AnimePaheAPI._request
\* No batch is running while a single call is followed.
NoBatch ==
    /\ njobs = 0
    /\ path = <<>>
    /\ playlist = [p \in Paths |-> [key_url |-> TRUE, segments |-> <<>>,
                                    media_sequence |-> 0]]
    /\ disk = [p \in Paths |-> EmptyWorkspace]
    /\ executor_shutdown = FALSE
    /\ mainpc = "none"
    /\ nextTask = 1
    /\ jpc = <<>>
    /\ jres = <<>>
    /\ reported = <<>>
    /\ failed_downloads = <<>>
    /\ futs = <<>>
    /\ collected = <<>>
    /\ failed_segments = <<>>
    /\ dlres = <<>>
    /\ key = <<>>
    /\ netCalls = <<>>

\* constants.MAX_RETRIES and constants.BACKOFF_FACTOR.
MAX_RETRIES == 3
BACKOFF_FACTOR == 2

\* self.verify_ssl and self._insecure_fallback_used as __init__ leaves them.
verify_ssl == FALSE
insecure_fallback_used == TRUE

\* What one self.http.request(...) can come back with: a response with a
\* status, or an exception of one of the classes _request tells apart.
Outcomes ==
    {[exc |-> "none", status |-> c] : c \in {200, 404, 408, 429, 500}}
        \cup {[exc |-> e, status |-> 0] : e \in {"SSLError", "HTTPError", "Exception"}}

RECURSIVE Pow(_, _)
Pow(b, e) == IF e = 0 THEN 1 ELSE b * Pow(b, e - 1)

\* A backoff that starts at one second.
sleep_time_from_one(attempt) == Pow(BACKOFF_FACTOR, attempt)

\* sleep_time = constants.BACKOFF_FACTOR ** (attempt + 1)
sleep_time(attempt) == Pow(BACKOFF_FACTOR, attempt + 1)

\* The SSLError branch that rebuilds the pool and continues without sleeping.
InsecureFallback(o) ==
    o.exc = "SSLError" /\ verify_ssl /\ ~insecure_fallback_used

InitRequest ==
    /\ NoBatch
    /\ is_shutting_down = FALSE
    /\ req = [pc |-> "request", attempt |-> 0, seen |-> <<>>,
              delays |-> <<>>, result |-> "none"]
    /\ parser = NoCall
    /\ resolver = NoCall
    /\ NoHelperCalls

\* One iteration of "for attempt in range(MAX_RETRIES)" up to the sleep:
\* the GET, the test of its status or the except clause that catches its
\* exception, then the sleep or the final return None.  seen lists what
\* each GET came back with, delays the sleeps begun so far.
RequestAttempt ==
    /\ req.pc = "request"
    /\ \E o \in Outcomes :
          LET r == [req EXCEPT !.seen = Append(@, o)]
          IN req' =
               IF o.exc = "none" /\ o.status = 200
               THEN [r EXCEPT !.pc = "returned", !.result = "response"]
               ELSE IF o.exc = "Exception"
               THEN [r EXCEPT !.pc = "returned", !.result = "None"]
               ELSE IF InsecureFallback(o)
               THEN IF req.attempt + 1 < MAX_RETRIES
                    THEN [r EXCEPT !.attempt = @ + 1]
                    ELSE [r EXCEPT !.pc = "returned", !.result = "None"]
               ELSE IF req.attempt < MAX_RETRIES - 1
               THEN [r EXCEPT !.pc = "sleeping",
                              !.delays = Append(@, sleep_time(req.attempt))]
               ELSE [r EXCEPT !.pc = "returned", !.result = "None"]
    /\ UNCHANGED <<batchVars, sanitizer, naming, selection, client, anime, config,
                   is_shutting_down, parser, resolver>>

\* time.sleep(sleep_time) returns and the loop takes the next attempt.
RequestWake ==
    /\ req.pc = "sleeping"
    /\ req' = [req EXCEPT !.pc = "request", !.attempt = @ + 1]
    /\ UNCHANGED <<batchVars, sanitizer, naming, selection, client, anime, config,
                   is_shutting_down, parser, resolver>>

\* The signal handler sets the flag while the call is under way.
RequestSignal ==
    /\ req.pc \in {"request", "sleeping"}
    /\ ~is_shutting_down
    /\ is_shutting_down' = TRUE
    /\ UNCHANGED <<batchVars, unitVars>>

NextRequest == RequestAttempt \/ RequestWake \/ RequestSignal
SpecRequest == InitRequest /\ [][NextRequest]_vars

\* -------------------------------------------- AnimePaheAPI.get_stream_url
\* The buttons of a play page, in page order.  A button carries data-av1,
\* data-resolution (a decimal number or some other text) and data-audio;
\* its data-src is told apart by its position in the page.
MaxButtons == 3
Resolutions ==
    {[numeric |-> TRUE, n |-> r] : r \in {480, 720, 1080}}
        \cup {[numeric |-> FALSE, n |-> 0]}
Audios == {"jpn", "eng"}
Buttons == [av1 : {"0", "1"}, resolution : Resolutions, audio : Audios]
Pages == UNION {[1..n -> Buttons] : n \in 0..MaxButtons}

\* The quality argument: "best", a decimal number, or any other text.
Qualities ==
    {[kind |-> "best", n |-> 0], [kind |-> "number", n |-> 720],
     [kind |-> "text", n |-> 0]}

\* s["quality_val"] = int(q_raw), or 0 when int() raises.
quality_val(b) == IF b.resolution.numeric THEN b.resolution.n ELSE 0

\* The dict built for the button at position i of the page.
Stream(page, i) ==
    [quality_val |-> quality_val(page[i]), audio |-> page[i].audio, url |-> i]

\* soup.find_all("button", attrs={"data-src": True, "data-av1": "0"}) and
\* the loop that copies the values out, in page order.
RECURSIVE find_all(_, _)
find_all(page, i) ==
    IF i > Len(page) THEN <<>>
    ELSE IF page[i].av1 = "0" THEN <<Stream(page, i)>> \o find_all(page, i + 1)
    ELSE find_all(page, i + 1)

\* streams.sort(key=quality_val, reverse=True): a stable sort, so streams of
\* equal quality keep their page order.  Insert puts s behind every stream
\* whose quality is not lower.
RECURSIVE Insert(_, _)
Insert(sorted, s) ==
    IF sorted = <<>> THEN <<s>>
    ELSE IF Head(sorted).quality_val >= s.quality_val
         THEN <<Head(sorted)>> \o Insert(Tail(sorted), s)
         ELSE <<s>> \o sorted
RECURSIVE sort_reverse(_, _)
sort_reverse(streams, i) ==
    IF i = 0 THEN <<>>
    ELSE Insert(sort_reverse(streams, i - 1), streams[i])

\* [s for s in streams if s.get("audio") == audio]
RECURSIVE audio_filter(_, _)
audio_filter(streams, audio) ==
    IF streams = <<>> THEN <<>>
    ELSE IF Head(streams).audio = audio
         THEN <<Head(streams)>> \o audio_filter(Tail(streams), audio)
         ELSE audio_filter(Tail(streams), audio)

\* A comparison that leaves out the exact match.
BelowTarget(stream, target_quality) == stream.quality_val < target_quality

\* if int(stream.get("quality_val", 0)) <= target_quality
WithinTarget(stream, target_quality) == stream.quality_val <= target_quality

\* "for stream in audio_streams: if ...: selected_stream = stream; break":
\* the position of the first stream within the target, 0 when there is none.
RECURSIVE first_within(_, _, _)
first_within(streams, target_quality, i) ==
    IF i > Len(streams) THEN 0
    ELSE IF WithinTarget(streams[i], target_quality) THEN i
    ELSE first_within(streams, target_quality, i + 1)

NoStream == [quality_val |-> 0, audio |-> "", url |-> 0]

InitResolve ==
    /\ NoBatch
    /\ is_shutting_down = FALSE
    /\ req = NoCall
    /\ parser = NoCall
    /\ NoHelperCalls
    /\ \E page \in Pages, q \in Qualities, a \in Audios :
          resolver = [pc |-> "fetch", page |-> page, quality |-> q, audio |-> a,
                      streams |-> <<>>, audio_streams |-> <<>>,
                      selected |-> NoStream, log |-> {}, result |-> 0]

\* response = self._request(play_url): without a response the call logs an
\* error and returns None (result 0).
ResolveFetch ==
    /\ resolver.pc = "fetch"
    /\ \/ resolver' = [resolver EXCEPT !.pc = "parse"]
       \/ resolver' = [resolver EXCEPT !.pc = "returned",
                                       !.log = @ \cup {"no_page"}]
    /\ UNCHANGED <<batchVars, sanitizer, naming, selection, client, anime, config,
                   is_shutting_down, req, parser>>

\* Lines 233-266: collect the streams, return None when there are none,
\* else give each its quality_val and sort.
ResolveStreams ==
    /\ resolver.pc = "parse"
    /\ LET streams == find_all(resolver.page, 1)
       IN resolver' =
            IF streams = <<>>
            THEN [resolver EXCEPT !.pc = "returned",
                                  !.log = @ \cup {"no_streams"}]
            ELSE [resolver EXCEPT !.pc = "audio",
                                  !.streams = sort_reverse(streams, Len(streams))]
    /\ UNCHANGED <<batchVars, sanitizer, naming, selection, client, anime, config,
                   is_shutting_down, req, parser>>

\* Lines 268-274: the audio selection and its fallback to all streams.
ResolveAudio ==
    /\ resolver.pc = "audio"
    /\ LET audio_streams == audio_filter(resolver.streams, resolver.audio)
       IN resolver' =
            IF audio_streams = <<>>
            THEN [resolver EXCEPT !.pc = "quality",
                                  !.audio_streams = resolver.streams,
                                  !.log = @ \cup {"audio_not_found"}]
            ELSE [resolver EXCEPT !.pc = "quality",
                                  !.audio_streams = audio_streams]
    /\ UNCHANGED <<batchVars, sanitizer, naming, selection, client, anime, config,
                   is_shutting_down, req, parser>>

\* Lines 276-309: the quality selection and the return of the URL.
ResolveQuality ==
    /\ resolver.pc = "quality"
    /\ LET as == resolver.audio_streams
           q == resolver.quality
           Return(sel, log) ==
               [resolver EXCEPT !.pc = "returned", !.selected = sel,
                                !.result = sel.url,
                                !.log = @ \cup log \cup {"selected"}]
       IN resolver' =
            IF q.kind = "best"
            THEN Return(as[1], {})
            ELSE IF q.kind = "text"
            THEN [resolver EXCEPT !.pc = "returned",
                                  !.log = @ \cup {"invalid_quality"}]
            ELSE LET i == first_within(as, q.n, 1)
                 IN IF i # 0 THEN Return(as[i], {})
                    ELSE Return(as[1], {"quality_not_found"})
    /\ UNCHANGED <<batchVars, sanitizer, naming, selection, client, anime, config,
                   is_shutting_down, req, parser>>

NextResolve == ResolveFetch \/ ResolveStreams \/ ResolveAudio \/ ResolveQuality
SpecResolve == InitResolve /\ [][NextResolve]_vars

\* ------------------------------------------------- the job pool on its own
\* main()'s pool with more tasks than threads.  Each orchestrator is followed
\* from its start to its end in one step; the signal handler is followed
\* statement by statement, because a signal can arrive while an earlier
\* delivery is still inside the handler.
NTasks == 3

InitSched ==
    /\ njobs \in 1..NTasks
    /\ path \in [1..njobs -> Paths]
    /\ \A j \in 1..njobs : path[j] <= j /\ (j > 1 => path[j] >= path[j - 1])
    /\ playlist = [p \in Paths |-> [key_url |-> TRUE, segments |-> <<>>,
                                     media_sequence |-> 0]]
    /\ disk = [p \in Paths |-> EmptyWorkspace]
    /\ is_shutting_down = FALSE
    /\ executor_shutdown = FALSE
    /\ mainpc = "submit"
    /\ nextTask = 1
    /\ jpc = [j \in 1..njobs |-> "new"]
    /\ jres = [j \in 1..njobs |-> "none"]
    /\ reported = [j \in 1..njobs |-> "none"]
    /\ failed_downloads = <<>>
    /\ futs = [j \in 1..njobs |-> <<>>]
    /\ collected = [j \in 1..njobs |-> {}]
    /\ failed_segments = [j \in 1..njobs |-> <<>>]
    /\ dlres = [j \in 1..njobs |-> "none"]
    /\ key = [j \in 1..njobs |-> "none"]
    /\ netCalls = [j \in 1..njobs |-> 0]
    /\ req = NoCall
    /\ parser = NoCall
    /\ resolver = NoCall
    /\ NoHelperCalls

\* download_single_episode from "Starting download" to its end: it logs and
\* returns (no stream), returns after the mux, or raises.
RunJob(j) ==
    /\ j \in 1..njobs
    /\ jpc[j] = "stream"
    /\ \E o \in {"nostream", "ok", "segfail", "muxfail"} :
          /\ jres' = [jres EXCEPT ![j] = o]
          /\ jpc' = [jpc EXCEPT ![j] =
                        IF o \in {"segfail", "muxfail"} THEN "raised" ELSE "returned"]
          /\ disk' = [disk EXCEPT ![path[j]] =
                         CASE o = "ok" -> [rmtree(@) EXCEPT !.output = TRUE]
                           [] o = "nostream" -> @
                           [] OTHER -> [@ EXCEPT !.dir = TRUE, !.playlist = TRUE]]
    /\ UNCHANGED <<unitVars, configVars, schedVars, futs, collected,
                   failed_segments, dlres, key, netCalls>>

\* A signal is delivered to the main thread inside main()'s pool block: the
\* handler is entered and takes self._lock; the flag is still False.
HandlerEnter ==
    /\ mainpc \in {"submit", "collect", "leaving"}
    /\ ~is_shutting_down
    /\ mainpc' = "handler_locked"
    /\ UNCHANGED <<unitVars, configVars, disk, is_shutting_down, executor_shutdown,
                   nextTask, jpc, jres, reported, failed_downloads, futs,
                   collected, failed_segments, dlres, key, netCalls>>

\* "self.is_shutting_down = True", still inside "with self._lock".
HandlerSetFlag ==
    /\ mainpc = "handler_locked"
    /\ ~is_shutting_down
    /\ is_shutting_down' = TRUE
    /\ UNCHANGED <<batchVars, unitVars>>

\* The lock is released, the callbacks run and sys.exit(0) unwinds main()
\* into the executor's __exit__.
HandlerCallbacks ==
    /\ mainpc = "handler_locked"
    /\ is_shutting_down
    /\ shutdown_callback
    /\ mainpc' = "unwinding"
    /\ UNCHANGED <<unitVars, configVars, disk, is_shutting_down, nextTask, jpc,
                   jres, reported, failed_downloads, futs, collected,
                   failed_segments, dlres, key, netCalls>>

\* A signal delivered while the handler of the earlier one holds self._lock:
\* the handler is entered again in the same thread and waits for the lock,
\* a threading.Lock, which its own thread holds.
NestedSignal ==
    /\ mainpc = "handler_locked"
    /\ mainpc' = "deadlocked"
    /\ UNCHANGED <<unitVars, configVars, disk, is_shutting_down, executor_shutdown,
                   nextTask, jpc, jres, reported, failed_downloads, futs,
                   collected, failed_segments, dlres, key, netCalls>>

\* A signal delivered after the first handler released the lock: the flag
\* is set, so the handler logs "Force shutdown requested" and sys.exit(1)
\* replaces the pending exit; no callback runs.
SecondSignal ==
    /\ mainpc = "unwinding"
    /\ is_shutting_down
    /\ mainpc' = "forced"
    /\ UNCHANGED <<unitVars, configVars, disk, is_shutting_down, executor_shutdown,
                   nextTask, jpc, jres, reported, failed_downloads, futs,
                   collected, failed_segments, dlres, key, netCalls>>

\* The interpreter joins the pool's threads, then the process ends with
\* status 1.
ForcedExit ==
    /\ mainpc = "forced"
    /\ PoolDrained
    /\ mainpc' = "exited1"
    /\ UNCHANGED <<unitVars, configVars, disk, is_shutting_down, executor_shutdown,
                   nextTask, jpc, jres, reported, failed_downloads, futs,
                   collected, failed_segments, dlres, key, netCalls>>

NextSched ==
    \/ SubmitTask
    \/ \E j \in 1..njobs : StartJob(j)
    \/ \E j \in 1..njobs : RunJob(j)
    \/ \E j \in 1..njobs : CollectJob(j)
    \/ LeavePool
    \/ HandlerEnter
    \/ HandlerSetFlag
    \/ HandlerCallbacks
    \/ NestedSignal
    \/ SecondSignal
    \/ MainExit
    \/ ForcedExit

SpecSched == InitSched /\ [][NextSched]_vars

\* The pool's threads and the main thread keep running: a thread that can
\* take or finish a task does so, and main() goes on with its loops.
FairSched ==
    /\ SpecSched
    /\ \A j \in 1..NTasks : WF_vars(StartJob(j) \/ RunJob(j))
    /\ WF_vars(SubmitTask \/ (\E j \in 1..njobs : CollectJob(j)) \/ LeavePool)

\* ------------------------------------------- AnimePaheAPI and its pool
\* The first argument of urllib3.PoolManager in _build_pool.
num_pools == 10
\* The default of --threads.
default_threads == 50

\* AnimePaheAPI._build_pool(verify)
build_pool(verify) ==
    IF verify
    THEN [size |-> num_pools, cert_reqs |-> "CERT_REQUIRED", assert_hostname |-> TRUE]
    ELSE [size |-> num_pools, cert_reqs |-> "CERT_NONE", assert_hostname |-> FALSE]

\* The object is about to be constructed: by main(), which has parsed
\* --insecure and passes verify_ssl=False whatever it is, or directly, with
\* the argument left at its default True or given.
InitClient ==
    /\ NoBatch
    /\ is_shutting_down = FALSE
    /\ req = NoCall
    /\ parser = NoCall
    /\ resolver = NoCall
    /\ sanitizer = NoCall
    /\ naming = NoCall
    /\ selection = NoCall
    /\ anime = NoCall
    /\ config = NoCall
    /\ \E caller \in {"main", "direct"}, insecure, arg \in BOOLEAN :
          /\ caller = "main" => ~arg
          /\ caller = "direct" => ~insecure
          /\ client = [pc |-> "new", caller |-> caller, insecure |-> insecure,
                       arg |-> arg]

\* AnimePaheAPI.__init__(verify_ssl=arg)
ClientInit ==
    /\ client.pc = "new"
    /\ client' = [pc |-> "ready", caller |-> client.caller,
                  insecure |-> client.insecure, arg |-> client.arg,
                  verify_ssl |-> verify_ssl,
                  insecure_fallback_used |-> insecure_fallback_used,
                  http |-> build_pool(FALSE),
                  idle |-> 0, inflight |-> 0, unverified |-> 0]
    /\ UNCHANGED <<batchVars, is_shutting_down, req, parser, resolver,
                   sanitizer, naming, selection, anime, config>>

\* self.http.request("GET", ...) of one of the worker threads that can be
\* inside _request at once with the defaults: it takes a pooled
\* connection or opens one, under the pool's TLS settings.
BeginRequest ==
    /\ client.pc = "ready"
    /\ client.inflight < default_threads * concurrent_downloads
    /\ client' = [client EXCEPT
                     !.inflight = @ + 1,
                     !.idle = IF @ > 0 THEN @ - 1 ELSE 0,
                     !.unverified = IF client.http.cert_reqs = "CERT_REQUIRED"
                                    THEN 0 ELSE 1]
    /\ UNCHANGED <<batchVars, is_shutting_down, req, parser, resolver,
                   sanitizer, naming, selection, anime, config>>

\* The response is released: the connection goes back to the pool when the
\* pool has room and is closed otherwise.
EndRequest ==
    /\ client.pc = "ready"
    /\ client.inflight > 0
    /\ client' = [client EXCEPT
                     !.inflight = @ - 1,
                     !.idle = IF @ < client.http.size THEN @ + 1 ELSE @]
    /\ UNCHANGED <<batchVars, is_shutting_down, req, parser, resolver,
                   sanitizer, naming, selection, anime, config>>

NextClient == ClientInit \/ BeginRequest \/ EndRequest
SpecClient == InitClient /\ [][NextClient]_vars

\* ------------------------------------------------ parse_episode_selection
\* Selection strings are sequences of characters: digits, the dash, the
\* comma, the space and a letter.
MaxSel == 4
Digits == {"0", "1", "3"}
Selections == UNION {[1..k -> Digits \cup {"-", ",", " ", "x"}] : k \in 0..MaxSel}

\* str.split(sep): the pieces between the separators, empty ones included.
RECURSIVE split(_, _)
split(str, sep) ==
    IF \A i \in DOMAIN str : str[i] # sep THEN <<str>>
    ELSE LET i == CHOOSE k \in DOMAIN str :
                      str[k] = sep /\ \A m \in 1..(k - 1) : str[m] # sep
         IN <<SubSeq(str, 1, i - 1)>> \o split(SubSeq(str, i + 1, Len(str)), sep)

\* str.strip()
RECURSIVE strip(_)
strip(str) ==
    IF str = <<>> THEN str
    ELSE IF Head(str) = " " THEN strip(Tail(str))
    ELSE IF str[Len(str)] = " " THEN strip(SubSeq(str, 1, Len(str) - 1))
    ELSE str

\* int(str) raises ValueError unless str is a run of digits.
IsInt(str) == str # <<>> /\ \A i \in DOMAIN str : str[i] \in Digits

\* int(str) of a run of digits.
RECURSIVE int(_)
int(str) ==
    IF str = <<>> THEN 0
    ELSE LET c == str[Len(str)]
         IN 10 * int(SubSeq(str, 1, Len(str) - 1))
                + (CASE c = "0" -> 0 [] c = "1" -> 1 [] c = "3" -> 3)

\* sorted(list(numbers))
RECURSIVE sorted(_)
sorted(numbers) ==
    IF numbers = {} THEN <<>>
    ELSE LET m == CHOOSE x \in numbers : \A y \in numbers : x <= y
         IN <<m>> \o sorted(numbers \ {m})

\* The numbers one part adds to selected_numbers: the body of the loop.
PartNumbers(raw, max_episode) ==
    LET part == strip(raw) IN
    IF part = <<>> THEN {}
    ELSE IF \E i \in DOMAIN part : part[i] = "-"
    THEN LET pieces == split(part, "-") IN
         IF Len(pieces) # 2 THEN {}
         ELSE LET start_str == strip(pieces[1])
                  end_str == strip(pieces[2])
              IN IF ~IsInt(start_str) \/ ~IsInt(end_str) THEN {}
                 ELSE LET a == int(start_str)
                          b == int(end_str)
                          start == IF a > b THEN b ELSE a
                          end == IF a > b THEN a ELSE b
                      IN {i \in start..end : i <= max_episode}
    ELSE IF ~IsInt(part) THEN {}
    ELSE IF int(part) <= max_episode THEN {int(part)} ELSE {}

InitSelection ==
    /\ NoBatch
    /\ is_shutting_down = FALSE
    /\ req = NoCall
    /\ parser = NoCall
    /\ resolver = NoCall
    /\ sanitizer = NoCall
    /\ naming = NoCall
    /\ client = NoCall
    /\ anime = NoCall
    /\ config = NoCall
    /\ \E selection_str \in Selections, max_episode \in {1, 2, 3} :
          selection = [pc |-> "split", selection_str |-> selection_str,
                       max_episode |-> max_episode, parts |-> <<>>,
                       selected_numbers |-> {}, result |-> <<>>]

\* parts = selection_str.split(",")
SelectionSplit ==
    /\ selection.pc = "split"
    /\ selection' = [selection EXCEPT
                        !.pc = "loop",
                        !.parts = split(selection.selection_str, ",")]
    /\ UNCHANGED <<batchVars, is_shutting_down, req, parser, resolver,
                   sanitizer, naming, client, anime, config>>

\* One iteration of "for part in parts".
SelectionPart ==
    /\ selection.pc = "loop"
    /\ selection.parts # <<>>
    /\ selection' = [selection EXCEPT
                        !.parts = Tail(@),
                        !.selected_numbers =
                            @ \cup PartNumbers(Head(selection.parts),
                                               selection.max_episode)]
    /\ UNCHANGED <<batchVars, is_shutting_down, req, parser, resolver,
                   sanitizer, naming, client, anime, config>>

\* return sorted(list(selected_numbers))
SelectionReturn ==
    /\ selection.pc = "loop"
    /\ selection.parts = <<>>
    /\ selection' = [selection EXCEPT
                        !.pc = "returned",
                        !.result = sorted(selection.selected_numbers)]
    /\ UNCHANGED <<batchVars, is_shutting_down, req, parser, resolver,
                   sanitizer, naming, client, anime, config>>

NextSelection == SelectionSplit \/ SelectionPart \/ SelectionReturn
SpecSelection == InitSelection /\ [][NextSelection]_vars

\* ------------------------------------------- the segment pool on its own
\* One call of download_from_playlist_cli for a plan of up to MaxPlan
\* entries, in a workspace where an earlier run may have left complete
\* segment files; main() waits for the task.
MaxPlan == 3

InitPool ==
    /\ njobs = 1
    /\ path = <<1>>
    /\ \E segments \in UNION {[1..n -> SegmentUrls] : n \in 1..MaxPlan} :
          playlist = [p \in Paths |->
                         [key_url |-> TRUE,
                          segments |-> IF p = 1 THEN segments ELSE <<>>,
                          media_sequence |-> 0]]
    /\ \E left \in SUBSET SegmentUrls :
          disk = [p \in Paths |->
                     IF p # 1 THEN EmptyWorkspace
                     ELSE [EmptyWorkspace EXCEPT
                              !.dir = TRUE, !.playlist = TRUE,
                              !.seg = [n \in Names |->
                                          IF \E u \in left : Basename(u) = n
                                          THEN LET u == CHOOSE u \in left : Basename(u) = n
                                               IN [exists |-> TRUE,
                                                   size |-> PaddedLen(CipherLen(u)),
                                                   clen |-> CipherLen(u),
                                                   iv |-> to_bytes(0, IV_LEN),
                                                   url |-> u]
                                          ELSE @[n]]]]
    /\ is_shutting_down = FALSE
    /\ executor_shutdown = FALSE
    /\ mainpc = "collect"
    /\ nextTask = 2
    /\ jpc = <<"pipeline">>
    /\ jres = <<"none">>
    /\ reported = <<"none">>
    /\ failed_downloads = <<>>
    /\ futs = <<<<>>>>
    /\ collected = <<{}>>
    /\ failed_segments = <<<<>>>>
    /\ dlres = <<"none">>
    /\ key = <<"none">>
    /\ netCalls = <<0>>
    /\ req = NoCall
    /\ parser = NoCall
    /\ resolver = NoCall
    /\ NoHelperCalls

NextPool ==
    \/ DownloadFromPlaylist(1)
    \/ \E k \in DOMAIN futs[1] : StartSegment(1, k)
    \/ \E k \in DOMAIN futs[1] : FetchSegment(1, k)
    \/ \E k \in DOMAIN futs[1] : WriteSegment(1, k)
    \/ \E k \in DOMAIN futs[1] : CollectSegment(1, k)
    \/ ExitSegmentPool(1)

SpecPool == InitPool /\ [][NextPool]_vars

\* ------------------------------------------------------------ Anime model
\* An Anime is constructed with a list of at most MaxEps Episode objects,
\* each a number and a session; add_episode and remove_episode follow.
MaxEps == 2

\* self.episodes.sort(key=lambda e: e.number): ascending and stable.
RECURSIVE sort_episodes(_)
sort_episodes(episodes) ==
    IF episodes = <<>> THEN <<>>
    ELSE LET i == CHOOSE k \in DOMAIN episodes :
                      /\ \A m \in DOMAIN episodes : episodes[k].number <= episodes[m].number
                      /\ \A m \in 1..(k - 1) : episodes[m].number # episodes[k].number
         IN <<episodes[i]>>
                \o sort_episodes(SubSeq(episodes, 1, i - 1)
                                     \o SubSeq(episodes, i + 1, Len(episodes)))

\* Anime.get_episode: the position of the first episode with that number,
\* 0 for None.
get_episode(episodes, episode_number) ==
    IF \E k \in DOMAIN episodes : episodes[k].number = episode_number
    THEN CHOOSE k \in DOMAIN episodes :
             /\ episodes[k].number = episode_number
             /\ \A m \in 1..(k - 1) : episodes[m].number # episode_number
    ELSE 0

InitAnime ==
    /\ NoBatch
    /\ is_shutting_down = FALSE
    /\ req = NoCall
    /\ parser = NoCall
    /\ resolver = NoCall
    /\ sanitizer = NoCall
    /\ naming = NoCall
    /\ selection = NoCall
    /\ client = NoCall
    /\ config = NoCall
    /\ \E episodes \in UNION {[1..n -> [number : 1..3, session : {"s1", "s2"}]] :
                                 n \in 0..MaxEps} :
          anime = [pc |-> "new", episodes |-> episodes, result |-> "none"]

\* Anime.__post_init__: _sort_episodes, then _validate of name and slug.
AnimePostInit ==
    /\ anime.pc = "new"
    /\ anime' = [anime EXCEPT !.pc = "ready", !.episodes = sort_episodes(@)]
    /\ UNCHANGED <<batchVars, is_shutting_down, req, parser, resolver,
                   sanitizer, naming, selection, client, config>>

\* Anime.add_episode(episode)
add_episode ==
    /\ anime.pc = "ready"
    /\ \E episode \in [number : 1..3, session : {"s1", "s2"}] :
          anime' = [anime EXCEPT
                       !.episodes = IF get_episode(@, episode.number) = 0
                                    THEN sort_episodes(Append(@, episode))
                                    ELSE @,
                       !.result = "none"]
    /\ UNCHANGED <<batchVars, is_shutting_down, req, parser, resolver,
                   sanitizer, naming, selection, client, config>>

\* Anime.remove_episode(episode_number): list.remove takes out the first
\* element equal to the episode found, which is that episode.
remove_episode ==
    /\ anime.pc = "ready"
    /\ \E episode_number \in 1..3 :
          LET i == get_episode(anime.episodes, episode_number)
          IN anime' = [anime EXCEPT
                          !.episodes = IF i # 0
                                       THEN SubSeq(@, 1, i - 1)
                                                \o SubSeq(@, i + 1, Len(@))
                                       ELSE @,
                          !.result = IF i # 0 THEN "true" ELSE "false"]
    /\ UNCHANGED <<batchVars, is_shutting_down, req, parser, resolver,
                   sanitizer, naming, selection, client, config>>

NextAnime == AnimePostInit \/ add_episode \/ remove_episode
SpecAnime == InitAnime /\ [][NextAnime]_vars

\* --------------------------------------------------------- config_manager
\* config.json is absent, holds a JSON object, or holds text that json.load
\* rejects; config.json.bak is absent or holds such text.  Dictionaries are
\* functions from keys to values.
DEFAULT_CONFIG == [quality |-> "best", audio |-> "jpn", threads |-> "100"]

InitConfig ==
    /\ NoBatch
    /\ is_shutting_down = FALSE
    /\ req = NoCall
    /\ parser = NoCall
    /\ resolver = NoCall
    /\ sanitizer = NoCall
    /\ naming = NoCall
    /\ selection = NoCall
    /\ client = NoCall
    /\ anime = NoCall
    /\ config = [op |-> "none",
                 file |-> [kind |-> "absent", dict |-> DEFAULT_CONFIG, text |-> ""],
                 before |-> [kind |-> "absent", dict |-> DEFAULT_CONFIG, text |-> ""],
                 bak |-> "", result |-> DEFAULT_CONFIG]

\* save_config(config_data): json.dump into config.json.
save_config ==
    /\ \E config_data \in {[quality |-> "720"],
                             [quality |-> "720", audio |-> "eng"],
                             [threads |-> "50", theme |-> "dark"]} :
          config' = [config EXCEPT
                        !.op = "save",
                        !.before = config.file,
                        !.file = [kind |-> "json", dict |-> config_data, text |-> ""]]
    /\ UNCHANGED <<batchVars, is_shutting_down, req, parser, resolver,
                   sanitizer, naming, selection, client, anime>>

\* Something other than the program leaves text in config.json that is not
\* JSON.
CorruptFile ==
    /\ \E text \in {"{ invalid json }", "{\"quality\": "} :
          config' = [config EXCEPT
                        !.op = "corrupt",
                        !.before = config.file,
                        !.file = [kind |-> "text", dict |-> DEFAULT_CONFIG,
                                  text |-> text]]
    /\ UNCHANGED <<batchVars, is_shutting_down, req, parser, resolver,
                   sanitizer, naming, selection, client, anime>>

\* load_config().  os.rename onto an existing config.json.bak replaces it on
\* POSIX and raises FileExistsError, an OSError, on Windows; the handler
\* prints the error and goes on to save_config(DEFAULT_CONFIG).
load_config ==
    /\ LET file == config.file
           defaults == [kind |-> "json", dict |-> DEFAULT_CONFIG, text |-> ""]
           update(d, u) == [k \in DOMAIN d \cup DOMAIN u |->
                               IF k \in DOMAIN u THEN u[k] ELSE d[k]]
       IN CASE file.kind = "absent" ->
                 config' = [config EXCEPT !.op = "load", !.before = file,
                                          !.file = defaults,
                                          !.result = DEFAULT_CONFIG]
            [] file.kind = "json" ->
                 config' = [config EXCEPT !.op = "load", !.before = file,
                                          !.result = update(DEFAULT_CONFIG, file.dict)]
            [] file.kind = "text" ->
                 \E renamed \in IF config.bak = "" THEN {TRUE} ELSE BOOLEAN :
                     config' = [config EXCEPT
                                   !.op = "load", !.before = file,
                                   !.bak = IF renamed THEN file.text ELSE @,
                                   !.file = defaults,
                                   !.result = DEFAULT_CONFIG]
    /\ UNCHANGED <<batchVars, is_shutting_down, req, parser, resolver,
                   sanitizer, naming, selection, client, anime>>

NextConfig == save_config \/ CorruptFile \/ load_config
SpecConfig == InitConfig /\ [][NextConfig]_vars

\* ------------------------------------------------------ sanitize_filename
\* Names are sequences of characters.  The characters tried: an ASCII
\* letter, a letter outside ASCII (str.isalnum() is true for both), the dot,
\* the space and the colon.
MaxName == 3
NamesUpTo(n) == UNION {[1..k -> {"a", "é", ".", " ", ":"}] : k \in 0..n}

\* invalid_chars = '<>/\\|:\"*?'
invalid_chars == {"<", ">", "/", "\\", "|", ":", "\"", "*", "?"}

\* name.lstrip(".")
RECURSIVE lstrip_dots(_)
lstrip_dots(name) ==
    IF name # <<>> /\ Head(name) = "." THEN lstrip_dots(Tail(name)) ELSE name

\* for char in invalid_chars: name = name.replace(char, '')
RECURSIVE remove_invalid(_)
remove_invalid(name) ==
    IF name = <<>> THEN <<>>
    ELSE IF Head(name) \in invalid_chars THEN remove_invalid(Tail(name))
    ELSE <<Head(name)>> \o remove_invalid(Tail(name))

\* "".join(c for c in name if c.isalnum() or c in " .-_()")
RECURSIVE keep_allowed(_)
keep_allowed(name) ==
    IF name = <<>> THEN <<>>
    ELSE IF \/ Head(name) \in {"a", "é"}    \* c.isalnum()
            \/ Head(name) \in {" ", ".", "-", "_", "(", ")"}
    THEN <<Head(name)>> \o keep_allowed(Tail(name))
    ELSE keep_allowed(Tail(name))

\* str.rstrip(): trailing whitespace goes.
RECURSIVE rstrip(_)
rstrip(name) ==
    IF name # <<>> /\ name[Len(name)] = " "
    THEN rstrip(SubSeq(name, 1, Len(name) - 1)) ELSE name

sanitize_filename(name) ==
    rstrip(keep_allowed(remove_invalid(lstrip_dots(name))))

InitSanitize ==
    /\ NoBatch
    /\ is_shutting_down = FALSE
    /\ req = NoCall
    /\ parser = NoCall
    /\ resolver = NoCall
    /\ naming = NoCall
    /\ selection = NoCall
    /\ client = NoCall
    /\ anime = NoCall
    /\ config = NoCall
    /\ \E input \in NamesUpTo(MaxName) :
          sanitizer = [pc |-> "lstrip", input |-> input, name |-> input]

\* name = name.lstrip(".")
SanitizeLstrip ==
    /\ sanitizer.pc = "lstrip"
    /\ sanitizer' = [sanitizer EXCEPT !.pc = "replace", !.name = lstrip_dots(@)]
    /\ UNCHANGED <<batchVars, is_shutting_down, req, parser, resolver,
                   naming, selection, client, anime, config>>

\* The loop over invalid_chars.
SanitizeReplace ==
    /\ sanitizer.pc = "replace"
    /\ sanitizer' = [sanitizer EXCEPT !.pc = "filter", !.name = remove_invalid(@)]
    /\ UNCHANGED <<batchVars, is_shutting_down, req, parser, resolver,
                   naming, selection, client, anime, config>>

\* The return statement: the filter and rstrip().
SanitizeReturn ==
    /\ sanitizer.pc = "filter"
    /\ sanitizer' = [sanitizer EXCEPT !.pc = "returned",
                                      !.name = rstrip(keep_allowed(@))]
    /\ UNCHANGED <<batchVars, is_shutting_down, req, parser, resolver,
                   naming, selection, client, anime, config>>

NextSanitize == SanitizeLstrip \/ SanitizeReplace \/ SanitizeReturn
SpecSanitize == InitSanitize /\ [][NextSanitize]_vars

\* ------------------------------------ get_episode_dir and get_video_path
\* Two tasks of one batch that differ in the show's title or in the episode
\* number; download_dir is the same for both.
TitleLen == 2

\* get_anime_dir(...), that is download_dir joined with
\* sanitize_filename(anime_name), joined with str(episode_number)
get_episode_dir(anime_name, episode_number) ==
    <<sanitize_filename(anime_name), episode_number>>
\* get_anime_dir(...) joined with "<sanitized name> Episode <n>.mp4"
get_video_path(anime_name, episode_number) ==
    <<sanitize_filename(anime_name), sanitize_filename(anime_name), "Episode",
      episode_number, "mp4">>

InitNaming ==
    /\ NoBatch
    /\ is_shutting_down = FALSE
    /\ req = NoCall
    /\ parser = NoCall
    /\ resolver = NoCall
    /\ sanitizer = NoCall
    /\ selection = NoCall
    /\ client = NoCall
    /\ anime = NoCall
    /\ config = NoCall
    /\ \E t1, t2 \in [name : NamesUpTo(TitleLen) \ {<<>>}, episode_num : {1, 2}] :
          /\ t1 # t2
          /\ naming = [pc |-> "running", tasks |-> <<t1, t2>>,
                       output |-> <<<<>>, <<>>>>, workspace |-> <<<<>>, <<>>>>]

\* download_single_episode of task i computes final_video_path.
NameOutput(i) ==
    /\ naming.pc = "running"
    /\ i \in 1..2
    /\ naming.output[i] = <<>>
    /\ LET t == naming.tasks[i]
       IN naming' = [naming EXCEPT
                        !.output[i] = get_video_path(t.name, t.episode_num)]
    /\ UNCHANGED <<batchVars, is_shutting_down, req, parser, resolver,
                   sanitizer, selection, client, anime, config>>

\* download_single_episode of task i computes episode_dir.
NameWorkspace(i) ==
    /\ naming.pc = "running"
    /\ i \in 1..2
    /\ naming.output[i] # <<>>
    /\ naming.workspace[i] = <<>>
    /\ LET t == naming.tasks[i]
       IN naming' = [naming EXCEPT
                        !.workspace[i] = get_episode_dir(t.name, t.episode_num)]
    /\ UNCHANGED <<batchVars, is_shutting_down, req, parser, resolver,
                   sanitizer, selection, client, anime, config>>

NextNaming == \E i \in 1..2 : NameOutput(i) \/ NameWorkspace(i)
SpecNaming == InitNaming /\ [][NextNaming]_vars

\* ------------------------------------------ Downloader.get_playlist_details
\* The stripped lines of a playlist file, told apart the way the parser's
\* startswith chain does.  ok says whether the rest of the line can be read:
\* the integer of a MEDIA-SEQUENCE line, a URI="..." with a non-empty value
\* in a KEY line, the number of an EXTINF line.  val is that value.
MaxLines == 3
Line(tag, ok, val) == [tag |-> tag, ok |-> ok, val |-> val]
Lines ==
    {Line("#EXT-X-MEDIA-SEQUENCE", TRUE, 7), Line("#EXT-X-MEDIA-SEQUENCE", FALSE, 0),
     Line("#EXT-X-KEY", TRUE, 1), Line("#EXT-X-KEY", TRUE, 2),
     Line("#EXT-X-KEY", FALSE, 0),
     Line("#EXTINF:", TRUE, 4), Line("#EXTINF:", FALSE, 0),
     Line("https", TRUE, 1), Line("https", TRUE, 2),
     Line("other", TRUE, 0)}
PlaylistFiles == UNION {[1..n -> Lines] : n \in 0..MaxLines}

\* A parser whose media sequence starts at 1.
ParseStartFromOne(exists, lines) ==
    [pc |-> "open", exists |-> exists, lines |-> lines, i |-> 1,
     key_url |-> 0, segments |-> <<>>, media_sequence |-> 1,
     total_duration |-> 0, result |-> "none"]

\* key_url, segments, media_sequence, total_duration = "", [], 0, 0.0
\* (key_url 0 stands for the empty string).
ParseStart(exists, lines) ==
    [pc |-> "open", exists |-> exists, lines |-> lines, i |-> 1,
     key_url |-> 0, segments |-> <<>>, media_sequence |-> 0,
     total_duration |-> 0, result |-> "none"]

InitParse ==
    /\ NoBatch
    /\ is_shutting_down = FALSE
    /\ req = NoCall
    /\ resolver = NoCall
    /\ NoHelperCalls
    /\ \/ parser = ParseStart(FALSE, <<>>)
       \/ \E lines \in PlaylistFiles : parser = ParseStart(TRUE, lines)

\* if not os.path.exists(playlist_path): return None
ParseOpen ==
    /\ parser.pc = "open"
    /\ parser' = IF parser.exists THEN [parser EXCEPT !.pc = "loop"]
                 ELSE [parser EXCEPT !.pc = "returned", !.result = "None"]
    /\ UNCHANGED <<batchVars, sanitizer, naming, selection, client, anime, config,
                   is_shutting_down, req, resolver>>

\* One pass of "for line in f": the startswith chain.  int() of a
\* MEDIA-SEQUENCE value that is no integer raises out of the function; a
\* KEY line with a URI overwrites key_url.
ParseLine ==
    /\ parser.pc = "loop"
    /\ parser.i <= Len(parser.lines)
    /\ LET line == parser.lines[parser.i]
           next == [parser EXCEPT !.i = @ + 1]
       IN parser' =
            IF line.tag = "#EXT-X-MEDIA-SEQUENCE"
            THEN IF line.ok THEN [next EXCEPT !.media_sequence = line.val]
                 ELSE [next EXCEPT !.pc = "returned", !.result = "raised"]
            ELSE IF line.tag = "#EXT-X-KEY"
            THEN IF line.ok THEN [next EXCEPT !.key_url = line.val]
                 ELSE next
            ELSE IF line.tag = "#EXTINF:"
            THEN IF line.ok THEN [next EXCEPT !.total_duration = @ + line.val]
                 ELSE next
            ELSE IF line.tag = "https"
            THEN [next EXCEPT !.segments = Append(@, line.val)]
            ELSE next
    /\ UNCHANGED <<batchVars, sanitizer, naming, selection, client, anime, config,
                   is_shutting_down, req, resolver>>

\* A test that asks for segments only.
PlanIncompleteIgnoringKey(key_url, segments) == segments = <<>>

\* if not key_url or not segments: return None
PlanIncomplete(key_url, segments) == key_url = 0 \/ segments = <<>>

\* After the loop: None without a key URI or without a segment, else the
\* dict.
ParseReturn ==
    /\ parser.pc = "loop"
    /\ parser.i > Len(parser.lines)
    /\ parser' = IF PlanIncomplete(parser.key_url, parser.segments)
                 THEN [parser EXCEPT !.pc = "returned", !.result = "None"]
                 ELSE [parser EXCEPT !.pc = "returned", !.result = "plan"]
    /\ UNCHANGED <<batchVars, sanitizer, naming, selection, client, anime, config,
                   is_shutting_down, req, resolver>>

NextParse == ParseOpen \/ ParseLine \/ ParseReturn
SpecParse == InitParse /\ [][NextParse]_vars

\* ================================================================ claims
\* The parsed plan of task j, and whether every segment of it has a file in
\* the workspace.
PlanOf(j) == get_playlist_details(path[j])
PlanOnDisk(j) ==
    /\ PlanOf(j).ok
    /\ \A i \in DOMAIN PlanOf(j).segments :
          disk[path[j]].seg[Basename(PlanOf(j).segments[i])].exists

\* C1: at every instant, every file that exists at a segment's outPath holds
\* the complete plaintext: its size is a positive multiple of 16 and equals
\* the length of the zero-padded ciphertext (no empty or partial file is
\* ever visible at outPath).
C1_SegmentFilesComplete ==
    \A p \in Paths : \A n \in Names :
        disk[p].seg[n].exists =>
            /\ disk[p].seg[n].size > 0
            /\ disk[p].seg[n].size % AES_BLOCK = 0
            /\ disk[p].seg[n].size = PaddedLen(disk[p].seg[n].clen)

\* C2: the IV with which the segment at position i of the full segment list
\* is decrypted is the 16-byte big-endian encoding of mediaSequence + i,
\* also when the same URL occurs at more than one position.
C2_PositionalIV ==
    \A j \in 1..njobs : \A k \in DOMAIN futs[j] :
        futs[j][k].st = "opened" =>
            futs[j][k].iv =
                to_bytes(playlist[path[j]].media_sequence + futs[j][k].pos, IV_LEN)

\* C3: once the cancellation flag is set, no segment fetch that has not yet
\* started is started.
C3_NoFetchStartsAfterCancel ==
    [][\A j \in 1..njobs : \A k \in DOMAIN futs[j] :
          (is_shutting_down /\ futs[j][k].st = "queued")
              => futs'[j][k].st = "queued"]_vars

\* C4: once the cancellation flag is set, no orchestrator that was still
\* queued in the pool is started.
C4_NoJobStartsAfterCancel ==
    [][\A j \in 1..njobs :
          (is_shutting_down /\ jpc[j] = "queued") => jpc'[j] = "queued"]_vars

\* C5: downloadAll returns success only if every pending segment's
\* fetch-decrypt-write succeeded, also when the flag is set during the
\* collection of results.
C5_SuccessOnlyIfAllSegmentsSucceeded ==
    \A j \in 1..njobs :
        (jpc[j] = "afterdl" /\ dlres[j] = "true") =>
            \A k \in DOMAIN futs[j] : futs[j][k].res > 0

\* C6: at the end of a batch, every job that ended without a finished output
\* (no stream, no playlist URL, playlist fetch failed, pipeline failed, mux
\* failed) is reported as failed and listed in failed_downloads, and none is
\* reported as completed.
C6_FailedJobsReported ==
    mainpc = "finished" =>
        \A j \in 1..njobs :
            jres[j] \in {"nostream", "noplaylisturl", "noplaylist", "segfail",
                         "muxfail", "error"} =>
                /\ reported[j] = "failed"
                /\ j \in Range(failed_downloads)

\* C7: in every orchestrator the muxer is invoked for an episode only after
\* the segment pipeline succeeded for it with every segment on disk.
C7_MuxOnlyAfterPipelineSuccess ==
    \A j \in 1..njobs :
        jpc[j] = "compile" =>
            /\ \A k \in DOMAIN futs[j] : futs[j][k].res > 0
            /\ PlanOnDisk(j)

\* C8: whenever mux returns success, the output file exists and the
\* workspace directory does not.
C8_MuxSuccessLeavesOutput ==
    [][\A j \in 1..njobs :
          (jres[j] # "ok" /\ jres'[j] = "ok") =>
              /\ disk'[path[j]].output
              /\ ~disk'[path[j]].dir]_vars

\* C9 as stated: entering the pipeline with every segment of the plan on
\* disk performs no segment GET and proceeds directly to muxing.
C9_ResumeAlwaysMuxes ==
    [][\A j \in 1..njobs :
          (jpc[j] = "pipeline" /\ jpc'[j] # "pipeline" /\ PlanOnDisk(j)) =>
              /\ futs'[j] = <<>>
              /\ jpc'[j] = "afterdl"
              /\ dlres'[j] = "true"]_vars

\* C9 amended: entering the pipeline with every segment of the plan on disk
\* submits no segment future and performs no segment GET; it returns
\* success, so that the orchestrator goes on to mux, when the GET of the key
\* succeeded, and failure when it did not.
C9_ResumeSkipsSegments ==
    [][\A j \in 1..njobs :
          (jpc[j] = "pipeline" /\ jpc'[j] # "pipeline" /\ PlanOnDisk(j)) =>
              /\ futs'[j] = <<>>
              /\ jpc'[j] = "afterdl"
              /\ key'[j] \in KeyResponses
              /\ (key'[j] # "failed" => dlres'[j] = "true")
              /\ (key'[j] = "failed" => dlres'[j] = "false")
              /\ netCalls'[j] = netCalls[j] + 1]_vars

\* A task that found its whole plan on disk and is about to mux without
\* having submitted a segment.
C9_Witness ==
    \E j \in 1..njobs :
        /\ jpc[j] = "afterdl"
        /\ dlres[j] = "true"
        /\ futs[j] = <<>>
        /\ PlanOnDisk(j)

\* C10: an orchestrator that finds the output MP4 present returns normally
\* having made no network call and having changed nothing on disk.
C10_ExistingOutputShortCircuits ==
    [][\A j \in 1..njobs :
          (jpc[j] = "queued" /\ jpc'[j] # "queued" /\ disk[path[j]].output) =>
              /\ jpc'[j] = "returned"
              /\ jres'[j] = "skipped"
              /\ netCalls'[j] = 0
              /\ netCalls' = netCalls
              /\ futs' = futs
              /\ disk' = disk]_vars

\* An orchestrator has returned because the output was already there.
C10_Witness ==
    \E j \in 1..njobs :
        /\ jpc[j] = "returned"
        /\ jres[j] = "skipped"
        /\ disk[path[j]].output

\* C11: absent cancellation, when download_from_playlist_cli returns in a
\* workspace of its own, every pending segment has been attempted, every
\* segment whose fetch and decryption succeeded is complete on disk whichever
\* other segments failed, and the result is a failure exactly when some
\* segment failed.
PrivateWorkspace(j) == \A i \in 1..njobs : i # j => path[i] # path[j]
C11_FailuresDoNotHaltOthers ==
    \A j \in 1..njobs :
        (jpc[j] = "afterdl" /\ ~is_shutting_down /\ PrivateWorkspace(j)
         /\ futs[j] # <<>>) =>
            /\ \A i \in DOMAIN playlist[path[j]].segments :
                   \/ \E k \in DOMAIN futs[j] : futs[j][k].pos = i - 1
                   \/ SegmentExists(disk[path[j]], playlist[path[j]].segments[i])
            /\ \A k \in DOMAIN futs[j] :
                   /\ futs[j][k].st = "done"
                   /\ futs[j][k].res > 0 =>
                          LET file == disk[path[j]].seg[futs[j][k].name]
                          IN file.exists /\ file.size = PaddedLen(file.clen)
            /\ dlres[j] = "false" <=>
                   \E k \in DOMAIN futs[j] : futs[j][k].res <= 0

\* One of two pending segments failed, the other is complete on disk.
C11_Witness ==
    \E j \in 1..njobs :
        /\ jpc[j] = "afterdl" /\ ~is_shutting_down /\ PrivateWorkspace(j)
        /\ Len(futs[j]) = 2
        /\ dlres[j] = "false"
        /\ \E k, m \in DOMAIN futs[j] :
               /\ futs[j][k].res <= 0
               /\ futs[j][m].res > 0 /\ futs[j][m].got
               /\ futs[j][m].name # futs[j][k].name
               /\ disk[path[j]].seg[futs[j][m].name].size
                      = PaddedLen(CipherLen(futs[j][m].url))

C13_PermanentStatusNotRetried ==
    LET Retryable(o) ==
            \/ o.exc \in {"SSLError", "HTTPError"}
            \/ o.exc = "none" /\ (o.status \in {408, 429} \/ o.status \in 500..599)
    IN (req.pc # "idle") =>
           \A k \in DOMAIN req.seen :
               (k < Len(req.seen) \/ req.pc \in {"sleeping", "request"}) =>
                   Retryable(req.seen[k])

\* C14: once the shutdown flag is set, a fetch that has made an attempt
\* starts no further retry: it neither begins a sleep nor issues the GET
\* again.
C14_NoRetryAfterCancel ==
    [][(is_shutting_down /\ req.pc # "idle" /\ Len(req.seen) >= 1) =>
          /\ Len(req'.seen) = Len(req.seen)
          /\ Len(req'.delays) = Len(req.delays)]_vars

\* C15: when the key URI yields a body that is not exactly 16 bytes long,
\* the pipeline fails before any segment is fetched, decrypted or written.
C15_BadKeyStopsBeforeSegments ==
    \A j \in 1..njobs :
        KeyLen(key[j]) \notin {0, AES_BLOCK} =>
            /\ \A k \in DOMAIN futs[j] : ~futs[j][k].got
            /\ jpc[j] = "afterdl" => dlres[j] = "false"

C17_DowngradeIsLogged ==
    (resolver.pc = "returned" /\ resolver.result # 0) =>
        /\ resolver.selected.audio # resolver.audio =>
               "audio_not_found" \in resolver.log
        /\ (resolver.quality.kind = "number"
            /\ resolver.selected.quality_val # resolver.quality.n) =>
               "quality_not_found" \in resolver.log

\* C18: when a playlist carries more than one #EXT-X-KEY line with a URI,
\* the key URI of the parsed plan is the first of them.
C18_FirstKeyWins ==
    LET keyed == {i \in DOMAIN parser.lines :
                     parser.lines[i].tag = "#EXT-X-KEY" /\ parser.lines[i].ok}
    IN (parser.pc = "returned" /\ parser.result = "plan"
        /\ Cardinality(keyed) > 1) =>
           parser.key_url =
               parser.lines[CHOOSE i \in keyed : \A k \in keyed : i <= k].val

C20_FileListInPlaylistOrder ==
    LET PlaylistOrder(p) ==
            [i \in 1..Len(playlist[p].segments) |->
                Basename(playlist[p].segments[i])]
    IN
    /\ \A p \in Paths :
          /\ disk[p].muxin # <<>> => disk[p].muxin = PlaylistOrder(p)
          /\ disk[p].manifest # <<>> => disk[p].manifest = PlaylistOrder(p)
    /\ \A j \in 1..njobs :
          PrivateWorkspace(j) =>
              /\ jres[j] = "ok" =>
                     /\ disk[path[j]].muxin = PlaylistOrder(path[j])
                     /\ disk[path[j]].muxin # <<>>
              /\ jres[j] = "muxfail" =>
                     /\ disk[path[j]].filelist
                     /\ disk[path[j]].manifest = PlaylistOrder(path[j])
                     /\ disk[path[j]].manifest # <<>>

\* A job was muxed from the list b.ts, a.ts: playlist order, not name order.
C20_Witness ==
    \E j \in 1..njobs :
        /\ jres[j] = "ok" /\ PrivateWorkspace(j)
        /\ disk[path[j]].muxin = <<"b.ts", "a.ts">>
        /\ \A k \in DOMAIN futs[j] : futs[j][k].got
        /\ Len(futs[j]) = 2

\* C21: two distinct tasks of one batch, differing in the title or in the
\* episode number, are given different workspace directories and different
\* output paths.
C21_DistinctJobsDistinctPaths ==
    (naming.pc = "running"
     /\ \A i \in 1..2 : naming.workspace[i] # <<>>) =>
        /\ naming.workspace[1] # naming.workspace[2]
        /\ naming.output[1] # naming.output[2]

\* C26: the result of sanitize_filename holds only characters of the class
\* [A-Za-z0-9 .\-_()], none of the invalid characters and no trailing
\* whitespace; an input of invalid characters only gives the empty string,
\* and an input of allowed characters with no leading dot and no trailing
\* whitespace comes back unchanged.
C26_SanitizedCharacterClass ==
    LET class == {"a", " ", ".", "-", "_", "(", ")"}
        in == sanitizer.input
        out == sanitizer.name
    IN (sanitizer.pc = "returned") =>
           /\ \A i \in DOMAIN out : out[i] \in class /\ out[i] \notin invalid_chars
           /\ out # <<>> => out[Len(out)] # " "
           /\ (\A i \in DOMAIN in : in[i] \in invalid_chars) => out = <<>>
           /\ ((\A i \in DOMAIN in : in[i] \in class)
               /\ (in # <<>> => in[1] # "." /\ in[Len(in)] # " ")) => out = in

\* C27: the result of sanitize_filename never begins with a dot, also when
\* the dot becomes the first character only after invalid characters in
\* front of it were removed.
C27_NoLeadingDot ==
    (sanitizer.pc = "returned" /\ sanitizer.name # <<>>) =>
        sanitizer.name[1] # "."

\* C22: at every instant at most concurrent_downloads orchestrators are
\* executing, however many tasks are queued.
C22_AtMostConcurrentOrchestrators ==
    Cardinality({j \in 1..njobs :
                    jpc[j] \notin {"new", "queued", "returned", "raised"}})
        <= concurrent_downloads

\* Two orchestrators run while a third task waits in the pool's queue.
C22_Witness ==
    /\ Cardinality({j \in 1..njobs : jpc[j] = "stream"}) = concurrent_downloads
    /\ \E j \in 1..njobs : jpc[j] = "queued"

\* C23: the failure of one orchestrator leaves its siblings alone, and absent
\* cancellation every submitted task runs to the end of its orchestrator and
\* main() reaches the end of the batch with each task reported the way its
\* own future ended: "failed" and listed in failed_downloads when it raised,
\* "completed" when it returned.
C23_SiblingsRunToTheirOwnOutcome ==
    /\ [][\A i \in 1..njobs :
             (jpc[i] # "raised" /\ jpc'[i] = "raised") =>
                 \A j \in 1..njobs \ {i} : jpc'[j] = jpc[j] /\ jres'[j] = jres[j]]_vars
    /\ [](mainpc = "finished" =>
             \A j \in 1..njobs :
                 /\ jpc[j] \in {"returned", "raised"}
                 /\ reported[j] = (IF jpc[j] = "raised" THEN "failed" ELSE "completed")
                 /\ jpc[j] = "raised" <=> j \in Range(failed_downloads))
    /\ <>(mainpc = "finished" \/ mainpc = "handler_locked")

\* A batch of three ended: one orchestrator raised, one that started after
\* it muxed its episode, and each is reported as it ended.
C23_Witness ==
    /\ mainpc = "finished"
    /\ njobs = NTasks
    /\ \E i, j \in 1..njobs :
          /\ i < j
          /\ jpc[i] = "raised" /\ reported[i] = "failed"
          /\ jres[j] = "ok" /\ reported[j] = "completed"

\* C24: the flag, once set, is never cleared, and a signal received while
\* the flag is set ends the process with exit status 1: the main thread goes
\* to the forced exit and to nothing else.
C24_SecondSignalForcesExit ==
    /\ [][is_shutting_down => is_shutting_down']_vars
    /\ [][(is_shutting_down /\ mainpc' # mainpc
              /\ mainpc' \in {"forced", "deadlocked"}) => mainpc' = "forced"]_vars

\* C25: once the flag is set no orchestrator starts a mux: a job that has
\* reached compile_video stays in front of it, with its workspace as it is.
C25_NoMuxAfterCancellation ==
    [][\A j \in 1..njobs :
          (is_shutting_down /\ jpc[j] = "compile") =>
              /\ jpc'[j] = "compile"
              /\ disk'[path[j]] = disk[path[j]]]_vars

\* C28: the shared pool holds at least threads x concurrent_downloads
\* connections (50 x 2 with the defaults), so the requests in flight never
\* exceed the pool size.
C28_PoolCoversWorstCase ==
    client.pc = "ready" =>
        /\ client.http.size >= default_threads * concurrent_downloads
        /\ client.inflight <= client.http.size

\* C29: a client constructed without an explicit choice of insecure mode
\* (--insecure for main(), verify_ssl=False for a direct construction)
\* verifies certificates and hostnames on every request.
C29_VerifiesUnlessInsecureSelected ==
    LET selected == IF client.caller = "main" THEN client.insecure ELSE ~client.arg
    IN (client.pc = "ready" /\ ~selected) =>
           /\ client.http.cert_reqs = "CERT_REQUIRED"
           /\ client.http.assert_hostname
           /\ client.unverified = 0

\* C30: parse_episode_selection returns, ascending and without duplicates,
\* exactly the positive numbers up to max_episode that the comma-separated
\* tokens name, a token being one integer or a range a-b in either order;
\* empty and malformed tokens name nothing.
C30_SelectionIsTheValidEpisodes ==
    LET tokens == split(selection.selection_str, ",")
        named(raw) ==
            LET part == strip(raw)
                ends == split(part, "-")
            IN IF IsInt(part) THEN {int(part)}
               ELSE IF Len(ends) = 2 /\ IsInt(strip(ends[1])) /\ IsInt(strip(ends[2]))
               THEN LET a == int(strip(ends[1]))
                        b == int(strip(ends[2]))
                    IN {n \in 0..(a + b) : (a <= n /\ n <= b) \/ (b <= n /\ n <= a)}
               ELSE {}
        valid == {n \in 1..selection.max_episode :
                     \E t \in DOMAIN tokens : n \in named(tokens[t])}
        out == selection.result
    IN selection.pc = "returned" =>
           /\ {out[i] : i \in DOMAIN out} = valid
           /\ \A i, j \in DOMAIN out : i < j => out[i] < out[j]

\* C31: after construction and after every add_episode and remove_episode,
\* the episodes are in ascending order of number with no number twice, and
\* get_episode(n) is the episode numbered n when there is one and None
\* otherwise.
C31_EpisodesSortedAndUnique ==
    LET eps == anime.episodes IN
    anime.pc = "ready" =>
        /\ \A i, j \in DOMAIN eps : i < j => eps[i].number < eps[j].number
        /\ \A n \in 1..3 :
               LET k == get_episode(eps, n)
               IN IF \E i \in DOMAIN eps : eps[i].number = n
                  THEN k # 0 /\ eps[k].number = n
                  ELSE k = 0

\* C32: load_config called when config.json holds what save_config(c) wrote
\* returns the defaults overridden by c: every key of c with c's value and
\* every default key.  Called when config.json is not valid JSON, it returns
\* the defaults, the corrupted content is in config.json.bak and config.json
\* is a valid file again.
C32_LoadAfterSaveAndRecovery ==
    LET c == config.before.dict
        out == config.result
    IN /\ (config.op = "load" /\ config.before.kind = "json") =>
              /\ \A k \in DOMAIN c : k \in DOMAIN out /\ out[k] = c[k]
              /\ \A k \in DOMAIN DEFAULT_CONFIG :
                     /\ k \in DOMAIN out
                     /\ k \notin DOMAIN c => out[k] = DEFAULT_CONFIG[k]
       /\ (config.op = "load" /\ config.before.kind = "text") =>
              /\ DOMAIN out = DOMAIN DEFAULT_CONFIG
              /\ \A k \in DOMAIN out : out[k] = DEFAULT_CONFIG[k]
              /\ config.bak = config.before.text
              /\ config.file.kind = "json"

\* C33: each job's phase only moves forward along Queued, Resolving,
\* Downloading, Muxing and ends in one terminal state, which it keeps; a job
\* is recorded as done only if its mux succeeded (or its output was already
\* there), and when main() is through the scheduler has recorded an outcome
\* for every job.
C33_PhasesForwardToOneTerminal ==
    /\ [][LET Phase(pc) ==
                CASE pc \in {"new", "queued"} -> 0
                  [] pc \in {"stream", "playlisturl"} -> 1
                  [] pc \in {"fetchplaylist", "pipeline", "collecting",
                             "joining", "afterdl"} -> 2
                  [] pc = "compile" -> 3
                  [] OTHER -> 4
          IN \A j \in 1..njobs :
                 /\ Phase(jpc'[j]) >= Phase(jpc[j])
                 /\ jpc[j] \in Terminal =>
                        jpc'[j] = jpc[j] /\ jres'[j] = jres[j]]_vars
    /\ [](\A j \in 1..njobs :
              reported[j] = "completed" => jres[j] \in {"ok", "skipped"})
    /\ [](mainpc \in {"finished", "exited"} =>
              \A j \in 1..njobs : reported[j] # "none")

\* C34: when download_from_playlist_cli partitions the plan, a segment is
\* left out of the pending list (no future, no GET) only if its file exists
\* with a size above zero.
C34_SkippedOnlyIfNonEmptyOnDisk ==
    [][\A j \in 1..njobs :
          (jpc[j] = "pipeline" /\ (jpc'[j] = "collecting" \/ dlres'[j] = "true")) =>
              \A i \in DOMAIN playlist[path[j]].segments :
                  LET file == disk[path[j]].seg[Basename(playlist[path[j]].segments[i])]
                  IN (\A k \in DOMAIN futs'[j] : futs'[j][k].pos # i - 1) =>
                         file.exists /\ file.size > 0]_vars

\* C35: when download_from_playlist_cli returns in a workspace of its own,
\* no file is at the path of a segment it reported as failed, so the next
\* invocation finds that segment pending.
C35_FailedSegmentsLeaveNoFile ==
    \A j \in 1..njobs :
        (jpc[j] = "afterdl" /\ PrivateWorkspace(j)) =>
            \A i \in DOMAIN failed_segments[j] :
                ~disk[path[j]].seg[failed_segments[j][i]].exists

\* C36: at every instant of download_from_playlist_cli the segment workers
\* that are fetching or writing number at most min(num_threads, number of
\* pending segments).
C36_InFlightAtMostConcurrency ==
    LET busy == {k \in DOMAIN futs[1] : futs[1][k].st \in {"fetching", "opened"}}
        pending == Len(futs[1])
    IN Cardinality(busy) <= (IF num_threads < pending THEN num_threads ELSE pending)

\* More segments are pending than there are threads: num_threads workers
\* are busy and a future waits in the queue.
C36_Witness ==
    /\ Len(futs[1]) > num_threads
    /\ Cardinality({k \in DOMAIN futs[1] : futs[1][k].st = "fetching"}) = num_threads
    /\ \E k \in DOMAIN futs[1] : futs[1][k].st = "queued"

\* C37: within one invocation of download_from_playlist_cli, no two segment
\* workers fetch and write the same output path: of the plan entries that
\* share a basename at most one is fetched and has the file open.
C37_OneWriterPerOutPath ==
    \A k1, k2 \in DOMAIN futs[1] :
        (k1 # k2 /\ futs[1][k1].name = futs[1][k2].name) =>
            ~(/\ futs[1][k1].got /\ futs[1][k2].got
              /\ futs[1][k1].st = "opened" /\ futs[1][k2].st = "opened")

\* C38: the segments of a plan returned by get_playlist_details are exactly
\* the lines of the file that begin with https, in their order of
\* appearance, and its media_sequence is the value of the
\* #EXT-X-MEDIA-SEQUENCE line, or 0 when the file has none.
C38_PlanIsTheHttpsLinesInOrder ==
    (parser.pc = "returned" /\ parser.result = "plan") =>
        LET lines == parser.lines
            https == {i \in DOMAIN lines : lines[i].tag = "https"}
            seqs == {i \in DOMAIN lines : lines[i].tag = "#EXT-X-MEDIA-SEQUENCE"}
            Before(i) == Cardinality({h \in https : h < i})
        IN /\ Len(parser.segments) = Cardinality(https)
           /\ \A i \in https : parser.segments[Before(i) + 1] = lines[i].val
           /\ parser.media_sequence =
                  IF seqs = {} THEN 0
                  ELSE lines[CHOOSE i \in seqs : \A k \in seqs : k <= i].val

\* A plan is returned for a file whose two https lines are not in sorted
\* order and that has no #EXT-X-MEDIA-SEQUENCE line.
C38_Witness ==
    /\ parser.pc = "returned" /\ parser.result = "plan"
    /\ parser.segments = <<2, 1>>
    /\ \A i \in DOMAIN parser.lines : parser.lines[i].tag # "#EXT-X-MEDIA-SEQUENCE"

\* C39: get_playlist_details is total: for every sequence of lines,
\* including a #EXT-X-MEDIA-SEQUENCE line whose value is missing or not an
\* integer and an #EXTINF line whose duration is not a number, it returns a
\* plan or None and never raises.
C39_ParseNeverRaises ==
    parser.pc = "returned" => parser.result \in {"plan", "None"}

\* C40: while download_from_playlist_cli reports progress, the total of the
\* progress bar is the number of segments of the whole plan, and the
\* segments found on disk by the partition are counted as done from the
\* start (3 segments with 1 on disk: total 3, 1 done before any fetch).
C40_ProgressCoversWholePlan ==
    (jpc[1] = "collecting") =>
        LET plan == playlist[path[1]].segments
            skipped == Len(plan) - Len(futs[1])
        IN /\ pbar_total(1) = Len(plan)
           /\ pbar_n(1) >= skipped

====
